---- MODULE Spec2Model ----
(***************************************************************************)
(* The message-dispatch and middleware engine of the robot:                *)
(* Middleware.execute, Listener.call, Robot.receive and                    *)
(* Robot.processListeners, run on the single-threaded event loop of the    *)
(* host (a FIFO queue of process.nextTick callbacks).                      *)
(*                                                                         *)
(* Functions supplied by scripts are arbitrary code: a matcher is           *)
(* represented by its result, a middleware or listener callback by what it *)
(* does at each invocation, chosen when it is invoked.                     *)
(* Continuations are defunctionalised: a `done` function is the sequence   *)
(* of its layers, the innermost first; calling it runs the last layer,     *)
(* which calls the rest.                                                   *)
(***************************************************************************)
EXTENDS Integers, Sequences, FiniteSets, TLC

\* Bound on the number of registration calls (listeners and middleware).
MaxRegistrations == 2

\* Bounds on the response chain and on the strings given to an outbound action.
MaxResponseMiddleware == 2
MaxStrings == 2

\* Texts of inbound TextMessages; a regex is represented by the text it accepts.
Texts == {"a", "b"}

\* What a middleware function of each chain may do when invoked: call next(),
\* call next(wrapped done), call done(), throw before calling either, call
\* context.response.finish() and then next(), or, in the response chain,
\* replace context.strings or push a string onto it and then call next().
MiddlewareBehaviours ==
    [receive |-> {"next", "nextWrap", "done", "throw", "finishNext"},
     listener |-> {"next", "nextWrap", "done", "throw"},
     response |-> {"next", "nextWrap", "done", "throw", "replace", "push"}]
\* What a listener callback may do when invoked: return, throw, call
\* response.finish(), or call response.send with one string.
CallbackBehaviours == {"ok", "throw", "finish", "send"}
\* What a method of the adapter may do when invoked: return or throw.
AdapterBehaviours == {"ok", "throw"}

VARIABLES
    listeners,   \* Robot.listeners, in registration order
    middleware,  \* Robot.middleware: the stack of each chain
    msgs,        \* the Message objects created so far
    execs,       \* the invocations of Middleware.execute
    procs,       \* the invocations of Robot.processListeners
    queue,       \* the process.nextTick queue
    cur,         \* the call being run by the current tick, or Idle
    log,         \* history of the calls made
    tick,        \* number of queue callbacks started so far
    errorHandlers, \* Robot.errorHandlers, in registration order
    frames       \* the middleware whose call of next() has not returned yet,
                 \* the innermost first

vars == <<listeners, middleware, msgs, execs, procs, queue, cur, log, tick,
         errorHandlers, frames>>

(***************************************************************************)
(* Records                                                                 *)
(***************************************************************************)
\* A call to run: a queued nextTick callback or the current position.
Op(op, e, k, d, p, v) == [op |-> op, e |-> e, k |-> k, d |-> d, p |-> p, v |-> v]
Idle == Op("idle", 0, 0, <<>>, 0, "")

\* A history entry, stamped with the tick it happened in.
Ev(ev, e, p, i, m, v) == [ev |-> ev, e |-> e, p |-> p, i |-> i, m |-> m, v |-> v, t |-> tick]

\* Layers of a done function.
CbLayer(m) == [t |-> "cb", e |-> 0, k |-> 0, m |-> m]
AllDoneLayer(e) == [t |-> "allDone", e |-> e, k |-> 0, m |-> 0]
WrapLayer(e, k) == [t |-> "wrap", e |-> e, k |-> k, m |-> 0]
ResponseDoneLayer(e) == [t |-> "responseDone", e |-> e, k |-> 0, m |-> 0]

\* Values held by the fields of a Response: objects by reference.
Ref(kind, id) == [kind |-> kind, id |-> id]
RobotRef == Ref("Robot", 0)
MessageRef(m) == Ref("Message", m)
EmptyArray == Ref("Array", 0)

\* new Response(robot, message, match): the envelope is built from the message
\* at construction.
Response(robot, message, match) ==
    [robot |-> robot, message |-> message, match |-> match, envelope |-> message]

\* An exception object, identified by what threw it.
Exception(thrownBy, e, i) == [thrownBy |-> thrownBy, e |-> e, i |-> i]

\* Arguments of the outbound actions: strings, a function, the options object
\* { plaintext: true }, and undefined.
Str(s) == [type |-> "string", v |-> s]
Fn(name) == [type |-> "function", v |-> name]
PlaintextOpts == [type |-> "object", v |-> "plaintext"]
Undefined == [type |-> "undefined", v |-> ""]

\* An array literal given as one argument.
ArrayOf(elements) == [array |-> elements]

\* robot.emit("error", ...args), the emit of the robot's event emitter
\* (eventName, eventData): the event carries the first argument after the
\* name, and further arguments are not part of it.
emitError(e, p, i, m, v, args) ==
    [ev |-> "error", e |-> e, p |-> p, i |-> i, m |-> m, v |-> v, t |-> tick,
     data |-> args[1]]

(***************************************************************************)
(* Messages and matchers                                                   *)
(***************************************************************************)
\* The message classes and the class each one extends.
Classes == {"Message", "Text", "Enter", "Leave", "Topic", "CatchAll"}
Extends(c) ==
    CASE c = "Message" -> "none"
      [] c = "Topic" -> "Text"
      [] OTHER -> "Message"

\* message instanceof cls, c being the class the message was constructed with.
RECURSIVE instanceof(_, _)
instanceof(c, cls) ==
    IF c = cls THEN TRUE
    ELSE IF c = "none" THEN FALSE
    ELSE instanceof(Extends(c), cls)

TextMessage(text) == [type |-> "Text", text |-> text, done |-> FALSE, inner |-> 0]
TopicMessage(text) == [type |-> "Topic", text |-> text, done |-> FALSE, inner |-> 0]
\* A Message, EnterMessage or LeaveMessage: no text.
MessageOf(c) == [type |-> c, text |-> "", done |-> FALSE, inner |-> 0]
CatchAllMessage(m) == [type |-> "CatchAll", text |-> "", done |-> FALSE, inner |-> m]

\* TextMessage.match: the Match object, or null.
TextMessage_match(text, regex) == IF text = regex THEN "match" ELSE "null"

isCatchAllMessage(message) == IF message.type = "CatchAll" THEN "true" ELSE "false"

\* A TextListener matcher that tests every message but a CatchAllMessage.
TextListener_matcher_run_testsAll(regex, message) ==
    IF message.type # "CatchAll"
      THEN [result |-> TextMessage_match(message.text, regex), tests |-> 1]
      ELSE [result |-> "undefined", tests |-> 0]

\* A TextListener matcher that tests the message a CatchAllMessage wraps.
TextListener_matcher_run_unwraps(regex, message) ==
    IF instanceof(message.type, "Text")
      THEN [result |-> TextMessage_match(message.text, regex), tests |-> 1]
      ELSE IF message.type = "CatchAll"
        THEN [result |-> TextMessage_match(msgs[message.inner].text, regex), tests |-> 1]
        ELSE [result |-> "undefined", tests |-> 0]

\* One run of the matcher of a TextListener: its result, and the number of
\* times it called message.match(regex).
TextListener_matcher_run(regex, message) ==
    IF instanceof(message.type, "Text")
      THEN [result |-> TextMessage_match(message.text, regex), tests |-> 1]
      ELSE [result |-> "undefined", tests |-> 0]

\* The matcher of a TextListener: undefined for a message that is no TextMessage.
TextListener_matcher(regex, message) == TextListener_matcher_run(regex, message).result

\* The number of pattern tests the matcher of listener l makes on a message.
PatternTests(l, message) ==
    IF l.kind = "hear" THEN TextListener_matcher_run(l.regex, message).tests ELSE 0

\* The value a listener's matcher returns for a message, or "throw".
Matcher(l, message) ==
    CASE l.kind = "hear" -> TextListener_matcher(l.regex, message)
      [] l.kind = "catchAll" -> isCatchAllMessage(message)
      [] OTHER -> l.matcher

Truthy(r) == r \in {"match", "true"}

(***************************************************************************)
(* Initial state: a robot with nothing registered and nothing received     *)
(***************************************************************************)
Init ==
    /\ listeners = <<>>
    /\ middleware = [receive |-> <<>>, listener |-> <<>>, response |-> <<>>]
    /\ msgs = <<>>
    /\ execs = <<>>
    /\ procs = <<>>
    /\ queue = <<>>
    /\ cur = Idle
    /\ log = <<>>
    /\ tick = 0
    /\ frames = <<>>
    /\ errorHandlers = <<>>

(***************************************************************************)
(* Registration                                                            *)
(***************************************************************************)
NumRegistered ==
    Len(listeners) + Len(middleware.receive) + Len(middleware.listener)
        + Len(middleware.response)

\* Scripts register while they load, before the adapter delivers messages.
CanRegister == msgs = <<>> /\ NumRegistered < MaxRegistrations

\* A function given as middleware, with its declared parameter count.
MiddlewareFunc(length) == [type |-> "function", length |-> length]

\* A register that pushes whatever it is given.
Middleware_register_acceptsAny(stack, middlewareFn) ==
    [threw |-> FALSE, stack |-> Append(stack, middlewareFn)]

\* Middleware.register on a chain with the given stack: throws when the
\* function's length is not 3, pushes the function onto the stack otherwise.
Middleware_register(stack, middlewareFn) ==
    IF middlewareFn.length # 3
      THEN [threw |-> TRUE, stack |-> stack]
      ELSE [threw |-> FALSE, stack |-> Append(stack, middlewareFn)]

Listener(kind, regex, matcher) == [kind |-> kind, regex |-> regex, matcher |-> matcher]

listen(matcher) ==
    /\ CanRegister
    /\ listeners' = Append(listeners, Listener("listen", "", matcher))
    /\ UNCHANGED <<middleware, msgs, execs, procs, queue, cur, log, tick, errorHandlers, frames>>

hear(regex) ==
    /\ CanRegister
    /\ listeners' = Append(listeners, Listener("hear", regex, ""))
    /\ UNCHANGED <<middleware, msgs, execs, procs, queue, cur, log, tick, errorHandlers, frames>>

catchAll ==
    /\ CanRegister
    /\ listeners' = Append(listeners, Listener("catchAll", "", ""))
    /\ UNCHANGED <<middleware, msgs, execs, procs, queue, cur, log, tick, errorHandlers, frames>>

receiveMiddleware ==
    /\ CanRegister
    /\ middleware' = [middleware EXCEPT !.receive = Middleware_register(@, MiddlewareFunc(3)).stack]
    /\ UNCHANGED <<listeners, msgs, execs, procs, queue, cur, log, tick, errorHandlers, frames>>

listenerMiddleware ==
    /\ CanRegister
    /\ middleware' = [middleware EXCEPT !.listener = Middleware_register(@, MiddlewareFunc(3)).stack]
    /\ UNCHANGED <<listeners, msgs, execs, procs, queue, cur, log, tick, errorHandlers, frames>>

responseMiddleware ==
    /\ CanRegister
    /\ middleware' = [middleware EXCEPT !.response = Middleware_register(@, MiddlewareFunc(3)).stack]
    /\ UNCHANGED <<listeners, msgs, execs, procs, queue, cur, log, tick, errorHandlers, frames>>

(***************************************************************************)
(* Middleware.execute                                                      *)
(***************************************************************************)
\* One invocation of Middleware.execute: the chain, context.response.message,
\* context.listener (index, 0 if none), the processListeners invocation it
\* serves (0 if none), the done function it was given, and the tick in which
\* execute was called.
Exec(chain, m, li, p, done) ==
    [chain |-> chain, m |-> m, li |-> li, p |-> p, done0 |-> done, t0 |-> tick]

Stack(e) == middleware[execs[e].chain]

\* The Response a listener chain runs on: new Response(robot, message, match).
ListenerResponse(li, m) == Response(RobotRef, MessageRef(m), Matcher(listeners[li], msgs[m]))

\* context.response of execution e: the Response built by Robot.receive or by
\* Listener.call, or, for a response chain, the Response the outbound action
\* was called on.
ContextResponse(e) ==
    LET x == execs[e]
    IN CASE x.chain = "receive" -> Response(RobotRef, MessageRef(x.m), "undefined")
         [] x.chain = "listener" -> ListenerResponse(x.li, x.m)
         [] OTHER -> x.response

\* reduce(stack, done, executeSingleMiddleware, allDone), started at the first
\* middleware with the done function as given.
reduceTask(e, done) == Op("mw", e, 1, done, 0, "")

\* Middleware.execute returns after deferring the reduce to the next tick.
Middleware_execute(x) ==
    /\ execs' = Append(execs, x)
    /\ queue' = Append(queue, reduceTask(Len(execs) + 1, x.done0))

\* The history entry of middleware k of execution e invoked and doing b; in a
\* response chain, with the context as the middleware finds it; in a receive
\* chain, with the text of context.response.message as the middleware finds it.
MwEv(e, k, b) ==
    CASE execs[e].chain = "response" ->
           [ev |-> "mw", e |-> e, p |-> 0, i |-> k, m |-> execs[e].m, v |-> b, t |-> tick,
            strings |-> execs[e].strings, method |-> execs[e].method,
            plaintext |-> execs[e].plaintext]
      [] execs[e].chain = "receive" ->
           [ev |-> "mw", e |-> e, p |-> 0, i |-> k, m |-> execs[e].m, v |-> b, t |-> tick,
            text |-> msgs[execs[e].m].text]
      [] OTHER -> Ev("mw", e, 0, k, execs[e].m, b)

\* The history entry of the wrapper of middleware k of execution e running;
\* in a response chain, with the context.strings it finds.
DoneEv(e, k) ==
    IF execs[e].chain = "response"
      THEN [ev |-> "done", e |-> e, p |-> 0, i |-> k, m |-> execs[e].m, v |-> "", t |-> tick,
            strings |-> execs[e].strings]
      ELSE Ev("done", e, 0, k, execs[e].m, "")

\* A nextFunc that passes on doneFunc whatever it is given.
nextFunc_ignoresNewDone(newDoneFunc, doneFunc) == doneFunc

\* nextFunc passes on newDoneFunc || doneFunc (<<>> stands for no argument).
nextFunc(newDoneFunc, doneFunc) == IF newDoneFunc # <<>> THEN newDoneFunc ELSE doneFunc

\* executeSingleMiddleware invokes middleware cur.k, which does b.
InMiddleware(b) ==
    /\ cur.op = "mw"
    /\ cur.k <= Len(Stack(cur.e))
    /\ b \in MiddlewareBehaviours[execs[cur.e].chain]

\* A middleware calls next(), or next(wrapped) with its own wrapper around done.
MiddlewareCallsNext ==
    /\ \E b \in {"next", "nextWrap"} :
        /\ InMiddleware(b)
        /\ LET newDoneFunc == IF b = "nextWrap"
                                 THEN Append(cur.d, WrapLayer(cur.e, cur.k))
                                 ELSE <<>>
           IN cur' = Op("mw", cur.e, cur.k + 1, nextFunc(newDoneFunc, cur.d), 0, "")
        /\ log' = Append(log, MwEv(cur.e, cur.k, b))
    /\ UNCHANGED <<listeners, middleware, msgs, execs, procs, queue, tick, errorHandlers, frames>>

\* A middleware calls context.response.finish() and then next().
MiddlewareFinishesThenNext ==
    /\ InMiddleware("finishNext")
    /\ msgs' = [msgs EXCEPT ![execs[cur.e].m].done = TRUE]
    /\ cur' = Op("mw", cur.e, cur.k + 1, nextFunc(<<>>, cur.d), 0, "")
    /\ log' = Append(log, MwEv(cur.e, cur.k, "finishNext"))
    /\ UNCHANGED <<listeners, middleware, execs, procs, queue, tick, errorHandlers, frames>>

\* A response middleware whose changes are made to a copy of context.strings
\* and are lost when it calls next().
MiddlewareChangesStrings_onACopy ==
    /\ \E b \in {"replace", "push"} :
        /\ InMiddleware(b)
        /\ log' = Append(log, MwEv(cur.e, cur.k, b))
    /\ cur' = Op("mw", cur.e, cur.k + 1, nextFunc(<<>>, cur.d), 0, "")
    /\ UNCHANGED <<listeners, middleware, msgs, execs, procs, queue, tick, errorHandlers, frames>>

\* A response middleware replaces context.strings by a new array, or pushes a
\* string onto the array, and then calls next().
MiddlewareChangesStrings ==
    /\ \E b \in {"replace", "push"} :
        /\ InMiddleware(b)
        /\ execs' = [execs EXCEPT ![cur.e].strings =
                        IF b = "replace" THEN <<Str("replaced")>> ELSE Append(@, Str("pushed"))]
        /\ log' = Append(log, MwEv(cur.e, cur.k, b))
    /\ cur' = Op("mw", cur.e, cur.k + 1, nextFunc(<<>>, cur.d), 0, "")
    /\ UNCHANGED <<listeners, middleware, msgs, procs, queue, tick, errorHandlers, frames>>

\* A receive middleware whose assignment is made to a copy of the message and
\* is lost when it calls next().
MiddlewareEditsMessage_onACopy ==
    /\ cur.op = "mw"
    /\ cur.k <= Len(Stack(cur.e))
    /\ execs[cur.e].chain = "receive"
    /\ \E text \in Texts :
          log' = Append(log, [MwEv(cur.e, cur.k, "edit") EXCEPT !.v = text])
    /\ cur' = Op("mw", cur.e, cur.k + 1, nextFunc(<<>>, cur.d), 0, "")
    /\ UNCHANGED <<listeners, middleware, msgs, execs, procs, queue, tick, errorHandlers, frames>>

\* A receive middleware assigns context.response.message.text and then calls
\* next(); the history entry tells the text assigned.
MiddlewareEditsMessage ==
    /\ cur.op = "mw"
    /\ cur.k <= Len(Stack(cur.e))
    /\ execs[cur.e].chain = "receive"
    /\ \E text \in Texts :
          /\ msgs' = [msgs EXCEPT ![execs[cur.e].m].text = text]
          /\ log' = Append(log, [MwEv(cur.e, cur.k, "edit") EXCEPT !.v = text])
    /\ cur' = Op("mw", cur.e, cur.k + 1, nextFunc(<<>>, cur.d), 0, "")
    /\ UNCHANGED <<listeners, middleware, execs, procs, queue, tick, errorHandlers, frames>>

\* A chain that goes on to its terminal step when a middleware calls done().
MiddlewareCallsDone_skipsToTerminal ==
    /\ InMiddleware("done")
    /\ cur' = Op("mw", cur.e, Len(Stack(cur.e)) + 1, cur.d, 0, "")
    /\ log' = Append(log, MwEv(cur.e, cur.k, "done"))
    /\ UNCHANGED <<listeners, middleware, msgs, execs, procs, queue, tick, errorHandlers, frames>>

\* A chain that goes on to the next middleware when a middleware calls done().
MiddlewareCallsDone_continues ==
    /\ InMiddleware("done")
    /\ cur' = Op("mw", cur.e, cur.k + 1, cur.d, 0, "")
    /\ log' = Append(log, MwEv(cur.e, cur.k, "done"))
    /\ UNCHANGED <<listeners, middleware, msgs, execs, procs, queue, tick, errorHandlers, frames>>

\* A middleware calls done() and returns without calling next.
MiddlewareCallsDone ==
    /\ InMiddleware("done")
    /\ cur' = Op("done", 0, 0, cur.d, 0, "")
    /\ log' = Append(log, MwEv(cur.e, cur.k, "done"))
    /\ UNCHANGED <<listeners, middleware, msgs, execs, procs, queue, tick, errorHandlers, frames>>

\* A catch block that emits error and leaves doneFunc uncalled.
MiddlewareThrows_stalls ==
    /\ InMiddleware("throw")
    /\ cur' = Idle
    /\ log' = log \o << MwEv(cur.e, cur.k, "throw"),
                        emitError(cur.e, 0, cur.k, execs[cur.e].m, "middleware",
                                  << Exception("middleware", cur.e, cur.k),
                                     ContextResponse(cur.e) >>) >>
    /\ UNCHANGED <<listeners, middleware, msgs, execs, procs, queue, tick, errorHandlers, frames>>

\* A middleware throws before calling next or done: the catch block emits
\* error and calls doneFunc.
MiddlewareThrows ==
    /\ InMiddleware("throw")
    /\ cur' = Op("done", 0, 0, cur.d, 0, "")
    /\ log' = log \o << MwEv(cur.e, cur.k, "throw"),
                        emitError(cur.e, 0, cur.k, execs[cur.e].m, "middleware",
                                  << Exception("middleware", cur.e, cur.k),
                                     ContextResponse(cur.e) >>) >>
    /\ UNCHANGED <<listeners, middleware, msgs, execs, procs, queue, tick, errorHandlers, frames>>

\* A middleware calls next() and, once that call has returned, throws: the
\* reduce goes on with the next middleware inside the call of next().
MiddlewareCallsNextThenThrows ==
    /\ cur.op = "mw"
    /\ cur.k <= Len(Stack(cur.e))
    /\ frames' = << [e |-> cur.e, k |-> cur.k, d |-> cur.d] >> \o frames
    /\ cur' = Op("mw", cur.e, cur.k + 1, nextFunc(<<>>, cur.d), 0, "")
    /\ log' = Append(log, MwEv(cur.e, cur.k, "nextThrow"))
    /\ UNCHANGED <<listeners, middleware, msgs, execs, procs, queue, tick, errorHandlers>>

\* The call of next() made by the innermost such middleware has returned and
\* the middleware throws: the catch block around it emits error and calls
\* the doneFunc the middleware was invoked with.
ThrowAfterNext ==
    /\ cur = Idle
    /\ frames # <<>>
    /\ LET f == Head(frames)
       IN /\ log' = log \o << Ev("thrown", f.e, 0, f.k, execs[f.e].m, ""),
                              emitError(f.e, 0, f.k, execs[f.e].m, "middleware",
                                        << Exception("middleware", f.e, f.k),
                                           ContextResponse(f.e) >>) >>
          /\ cur' = Op("done", 0, 0, f.d, 0, "")
    /\ frames' = Tail(frames)
    /\ UNCHANGED <<listeners, middleware, msgs, execs, procs, queue, tick, errorHandlers>>

\* The reduce has passed the last middleware: allDone calls next(context, done).
AtTerminal(chain) ==
    /\ cur.op = "mw"
    /\ cur.k > Len(Stack(cur.e))
    /\ execs[cur.e].chain = chain

(***************************************************************************)
(* Listener.call                                                           *)
(***************************************************************************)
\* A catchAll wrapper that leaves response.message as it is.
CallbackMessage_keepsWrapper(l, m) == m

\* The message of the Response the callback works on: the wrapper installed
\* by Robot.catchAll first replaces response.message by the wrapped message.
CallbackMessage(l, m) == IF l.kind = "catchAll" THEN msgs[m].inner ELSE m

\* The execution of the response chain started by runWithMiddleware: an Exec
\* with the Response and the context fields strings, method and plaintext,
\* and the callback kept by the closure of runAdapterSend.
ResponseExec(res, li, p, strings, method, plaintext, callback) ==
    [chain |-> "response", m |-> res.message.id, li |-> li, p |-> p,
     done0 |-> <<ResponseDoneLayer(Len(execs) + 1)>>, t0 |-> tick,
     response |-> res, strings |-> strings, method |-> method,
     plaintext |-> plaintext, callback |-> callback]

\* runWithMiddleware(methodName, opts, ...strings), given its arguments: the
\* strings are the arguments from the third on, a trailing function is taken
\* off as the callback, plaintext is set when opts has it, and the response
\* chain is executed with runAdapterSend as the terminal step and
\* responseMiddlewareDone as done.  li and p tell the listener and the pass
\* the call comes from (0 when it comes from elsewhere).
runWithMiddleware(res, li, p, arguments) ==
    LET methodName == arguments[1].v
        opts == arguments[2]
        strings == SubSeq(arguments, 3, Len(arguments))
        copy == strings
        trailing == copy # <<>> /\ copy[Len(copy)].type = "function"
        callback == IF trailing THEN copy[Len(copy)] ELSE Undefined
        popped == IF trailing THEN SubSeq(copy, 1, Len(copy) - 1) ELSE copy
        plaintext == IF opts.type = "object" /\ opts.v = "plaintext" THEN "true" ELSE "undefined"
    IN Middleware_execute(ResponseExec(res, li, p, popped, methodName, plaintext, callback))

\* The outbound actions of a Response, given their arguments.
Response_send(res, li, p, strings) ==
    runWithMiddleware(res, li, p, <<Str("send"), PlaintextOpts>> \o strings)
Response_emote(res, li, p, strings) ==
    runWithMiddleware(res, li, p, <<Str("emote"), PlaintextOpts>> \o strings)
Response_reply(res, li, p, strings) ==
    runWithMiddleware(res, li, p, <<Str("reply"), PlaintextOpts>> \o strings)
Response_topic(res, li, p, strings) ==
    runWithMiddleware(res, li, p, <<Str("topic"), PlaintextOpts>> \o strings)
\* A play that passes the options object of the other actions.
Response_play_withOpts(res, li, p, strings) ==
    runWithMiddleware(res, li, p, <<Str("play"), PlaintextOpts>> \o strings)
Response_play(res, li, p, strings) ==
    runWithMiddleware(res, li, p, <<Str("play")>> \o strings)
Response_locked(res, li, p, strings) ==
    runWithMiddleware(res, li, p, <<Str("locked"), PlaintextOpts>> \o strings)

\* executeListener: runs the callback inside try/catch, then calls done().
executeListener ==
    /\ AtTerminal("listener")
    /\ LET x == execs[cur.e]
           l == listeners[x.li]
           rm == CallbackMessage(l, x.m)
       IN \E cb \in CallbackBehaviours :
            LET called == << Ev("terminal", cur.e, x.p, x.li, x.m, ""),
                             Ev("callback", cur.e, x.p, x.li, rm, cb) >>
            IN /\ msgs' = IF cb = "finish" THEN [msgs EXCEPT ![rm].done = TRUE] ELSE msgs
               /\ log' = IF cb = "throw"
                           THEN log \o called
                                    \o << emitError(cur.e, x.p, x.li, rm, "callback",
                                             << Exception("callback", cur.e, x.li),
                                                [ContextResponse(cur.e) EXCEPT
                                                    !.message = MessageRef(rm)] >>) >>
                           ELSE log \o called
               /\ IF cb = "send"
                     THEN Response_send([ContextResponse(cur.e) EXCEPT
                                            !.message = MessageRef(rm)],
                                        x.li, x.p, <<Str("sent")>>)
                     ELSE UNCHANGED <<execs, queue, errorHandlers, frames>>
    /\ cur' = Op("done", 0, 0, cur.d, 0, "")
    /\ UNCHANGED <<listeners, middleware, procs, tick, errorHandlers, frames>>

\* The doneFunc the last middleware of execution e was invoked with, d being
\* the done function that middleware passed on.
DoneOfLastMiddleware(e, d) ==
    IF d # <<>> /\ d[Len(d)] = WrapLayer(e, Len(Stack(e)))
      THEN SubSeq(d, 1, Len(d) - 1)
      ELSE d

\* runAdapterSend, the terminal step of the response chain: pushes the
\* callback, when there is one, onto context.strings, calls the adapter
\* method with the envelope of the Response followed by the elements of that
\* array, and then done().  When the adapter method throws, done() is not
\* reached: the exception unwinds the synchronous calls of the reduce up to
\* the try block around the last middleware, whose catch emits error and
\* calls its doneFunc (when that middleware is still inside its call of
\* next(), the call ends there); with an empty stack no try block is on the way and the
\* exception leaves the nextTick callback uncaught, which the robot's
\* uncaughtException handler reports as an error event.
runAdapterSend ==
    /\ AtTerminal("response")
    /\ LET x == execs[cur.e]
           result == IF x.callback # Undefined THEN Append(x.strings, x.callback)
                                               ELSE x.strings
           called(a) == << Ev("terminal", cur.e, x.p, x.li, x.m, ""),
                           [ev |-> "adapter", e |-> cur.e, p |-> x.p, i |-> x.li,
                            m |-> x.m, v |-> a, t |-> tick, method |-> x.method,
                            envelope |-> x.response.envelope, args |-> result] >>
           err == Exception("adapter", cur.e, 0)
       IN /\ execs' = [execs EXCEPT ![cur.e].strings = result]
          /\ \E a \in AdapterBehaviours :
               CASE a = "ok" ->
                      /\ log' = log \o called(a)
                      /\ cur' = Op("done", 0, 0, cur.d, 0, "")
                      /\ frames' = frames
                 [] a = "throw" /\ Len(Stack(cur.e)) > 0 ->
                      /\ log' = log \o called(a)
                                    \o << emitError(cur.e, x.p, Len(Stack(cur.e)), x.m, "terminal",
                                                    << err, ContextResponse(cur.e) >>) >>
                      /\ cur' = Op("done", 0, 0, DoneOfLastMiddleware(cur.e, cur.d), 0, "")
                      /\ frames' = IF frames # <<>> /\ Head(frames).e = cur.e
                                        /\ Head(frames).k = Len(Stack(cur.e))
                                     THEN Tail(frames)
                                     ELSE frames
                 [] OTHER ->
                      /\ log' = log \o called(a)
                                    \o << Ev("uncaught", cur.e, x.p, x.li, x.m, "adapter"),
                                          emitError(cur.e, x.p, 0, x.m, "uncaught",
                                                    << ArrayOf(<<err>>) >>) >>
                      /\ cur' = Idle
                      /\ frames' = frames
    /\ UNCHANGED <<listeners, middleware, msgs, procs, queue, tick, errorHandlers>>

\* An allDone that defers didMatchCallback(false).
Listener_allDone_reportsFalse(e) == Op("didMatch", e, execs[e].li, <<>>, execs[e].p, "false")

\* allDone of Listener.call: defers didMatchCallback(true).
Listener_allDone(e) == Op("didMatch", e, execs[e].li, <<>>, execs[e].p, "true")

(***************************************************************************)
(* Calling a done function                                                 *)
(***************************************************************************)
\* A wrapper that, once run, calls the done function given to the chain
\* instead of the done it wrapped.
CallWrappedDone_skipsToFinal ==
    /\ cur.op = "done"
    /\ cur.d[Len(cur.d)].t = "wrap"
    /\ LET w == cur.d[Len(cur.d)]
       IN log' = Append(log, DoneEv(w.e, w.k))
    /\ cur' = Op("done", 0, 0, <<cur.d[1]>>, 0, "")
    /\ UNCHANGED <<listeners, middleware, msgs, execs, procs, queue, tick, errorHandlers, frames>>

\* A wrapper installed by a middleware runs and calls the done it wrapped.
CallWrappedDone ==
    /\ cur.op = "done"
    /\ cur.d[Len(cur.d)].t = "wrap"
    /\ LET w == cur.d[Len(cur.d)]
       IN log' = Append(log, DoneEv(w.e, w.k))
    /\ cur' = Op("done", 0, 0, SubSeq(cur.d, 1, Len(cur.d) - 1), 0, "")
    /\ UNCHANGED <<listeners, middleware, msgs, execs, procs, queue, tick, errorHandlers, frames>>

\* The done function of a listener chain: Listener.call's allDone.
CallListenerAllDone ==
    /\ cur.op = "done"
    /\ cur.d[Len(cur.d)].t = "allDone"
    /\ LET e == cur.d[Len(cur.d)].e
       IN /\ queue' = Append(queue, Listener_allDone(e))
          /\ log' = Append(log, Ev("allDone", e, execs[e].p, execs[e].li, execs[e].m, ""))
    /\ cur' = Idle
    /\ UNCHANGED <<listeners, middleware, msgs, execs, procs, tick, errorHandlers, frames>>

\* responseMiddlewareDone, the done function of a response chain: empty.
CallResponseMiddlewareDone ==
    /\ cur.op = "done"
    /\ cur.d[Len(cur.d)].t = "responseDone"
    /\ LET e == cur.d[Len(cur.d)].e
       IN log' = Append(log, Ev("responseDone", e, execs[e].p, execs[e].li, execs[e].m, ""))
    /\ cur' = Idle
    /\ UNCHANGED <<listeners, middleware, msgs, execs, procs, queue, tick, errorHandlers, frames>>

\* The completion callback cb given to Robot.receive.
CallCompletionCallback ==
    /\ cur.op = "done"
    /\ cur.d[Len(cur.d)].t = "cb"
    /\ log' = Append(log, Ev("cb", 0, 0, 0, cur.d[Len(cur.d)].m, ""))
    /\ cur' = Idle
    /\ UNCHANGED <<listeners, middleware, msgs, execs, procs, queue, tick, errorHandlers, frames>>

(***************************************************************************)
(* Robot.receive and Robot.processListeners                                *)
(***************************************************************************)
\* Robot.receive: runs the receive chain on { response: new Response(this,
\* message) } with processListeners as the terminal step and cb as done.
Robot_receive(m, cb) == Middleware_execute(Exec("receive", m, 0, 0, cb))

\* The adapter hands an inbound TextMessage to the robot.
receive ==
    /\ msgs = <<>>
    /\ cur = Idle
    /\ \E text \in Texts : msgs' = <<TextMessage(text)>>
    /\ Robot_receive(1, <<CbLayer(1)>>)
    /\ log' = Append(log, Ev("receive", Len(execs) + 1, 0, 0, 1, ""))
    /\ UNCHANGED <<listeners, middleware, procs, cur, tick, errorHandlers, frames>>

\* The adapter hands an inbound message that is no TextMessage to the robot:
\* a plain Message, an EnterMessage, a LeaveMessage or a TopicMessage.
receiveOther ==
    /\ msgs = <<>>
    /\ cur = Idle
    /\ \E message \in {MessageOf(c) : c \in {"Message", "Enter", "Leave"}}
                          \cup {TopicMessage(text) : text \in Texts} :
          msgs' = <<message>>
    /\ Robot_receive(1, <<CbLayer(1)>>)
    /\ log' = Append(log, Ev("receive", Len(execs) + 1, 0, 0, 1, ""))
    /\ UNCHANGED <<listeners, middleware, procs, cur, tick, errorHandlers, frames>>

\* One invocation of processListeners: the message, anyListenersExecuted,
\* the number of listeners detectSeries has completed, and its done function.
Proc(m, done) == [m |-> m, any |-> FALSE, completed |-> 0, done |-> done]

\* An iteration that ends after the first listener.
Continue_stopsAfterFirst(p, completed) ==
    IF completed >= 1 \/ completed >= Len(listeners)
      THEN Op("final", 0, 0, <<>>, p, "")
      ELSE Op("iterate", 0, 0, <<>>, p, "")

\* eachSeries: the final callback when no listener is left, else the next one.
Continue(p, completed) ==
    IF completed >= Len(listeners)
      THEN Op("final", 0, 0, <<>>, p, "")
      ELSE Op("iterate", 0, 0, <<>>, p, "")

\* The terminal step of the receive chain.
processListeners ==
    /\ AtTerminal("receive")
    /\ procs' = Append(procs, Proc(execs[cur.e].m, cur.d))
    /\ cur' = Continue(Len(procs) + 1, 0)
    /\ log' = Append(log, Ev("terminal", cur.e, Len(procs) + 1, 0, execs[cur.e].m, ""))
    /\ UNCHANGED <<listeners, middleware, msgs, execs, queue, tick, errorHandlers, frames>>

\* The detectSeries iterator calls the next listener; its matcher throws, and
\* the catch block emits error and continues with the next listener.
ListenerCallThrows ==
    /\ cur.op = "iterate"
    /\ LET p == cur.p
           i == procs[p].completed + 1
           m == procs[p].m
       IN /\ Matcher(listeners[i], msgs[m]) = "throw"
          /\ procs' = [procs EXCEPT ![p].completed = i]
          /\ cur' = Continue(p, i)
          /\ log' = log \o << Ev("call", 0, p, i, m, "throw"),
                              emitError(0, p, i, 0, "call",
                                  << ArrayOf(<< Exception("matcher", p, i),
                                                Response(MessageRef(m), EmptyArray,
                                                         "undefined") >>) >>) >>
    /\ UNCHANGED <<listeners, middleware, msgs, execs, queue, tick, errorHandlers, frames>>

\* The history entry of a Listener.call that returned: the matcher result and
\* the value returned.
CallEv(e, p, i, m, r, ret) ==
    [ev |-> "call", e |-> e, p |-> p, i |-> i, m |-> m, v |-> r, t |-> tick, returns |-> ret,
     tests |-> PatternTests(listeners[i], msgs[m])]

\* A Listener.call that reports true for a matcher result that is falsy.
ListenerCallNoMatch_reportsTrue ==
    /\ cur.op = "iterate"
    /\ LET p == cur.p
           i == procs[p].completed + 1
           m == procs[p].m
           r == Matcher(listeners[i], msgs[m])
       IN /\ r # "throw"
          /\ ~Truthy(r)
          /\ queue' = Append(queue, Op("didMatch", 0, i, <<>>, p, "true"))
          /\ log' = Append(log, CallEv(0, p, i, m, r, "false"))
    /\ cur' = Idle
    /\ UNCHANGED <<listeners, middleware, msgs, execs, procs, tick, errorHandlers, frames>>

\* A Listener.call that invokes didMatchCallback(false) before it returns.
ListenerCallNoMatch_callsBackNow ==
    /\ cur.op = "iterate"
    /\ LET p == cur.p
           i == procs[p].completed + 1
           m == procs[p].m
           r == Matcher(listeners[i], msgs[m])
       IN /\ r # "throw"
          /\ ~Truthy(r)
          /\ cur' = Op("didMatch", 0, i, <<>>, p, "false")
          /\ log' = Append(log, CallEv(0, p, i, m, r, "false"))
    /\ UNCHANGED <<listeners, middleware, msgs, execs, procs, queue, tick, errorHandlers, frames>>

\* Listener.call when the matcher result is falsy: defers
\* didMatchCallback(false) and returns false.
ListenerCallNoMatch ==
    /\ cur.op = "iterate"
    /\ LET p == cur.p
           i == procs[p].completed + 1
           m == procs[p].m
           r == Matcher(listeners[i], msgs[m])
       IN /\ r # "throw"
          /\ ~Truthy(r)
          /\ queue' = Append(queue, Op("didMatch", 0, i, <<>>, p, "false"))
          /\ log' = Append(log, CallEv(0, p, i, m, r, "false"))
    /\ cur' = Idle
    /\ UNCHANGED <<listeners, middleware, msgs, execs, procs, tick, errorHandlers, frames>>

\* A Listener.call that runs executeListener without the listener middleware.
ListenerCallMatch_skipsMiddleware ==
    /\ cur.op = "iterate"
    /\ LET p == cur.p
           i == procs[p].completed + 1
           m == procs[p].m
           r == Matcher(listeners[i], msgs[m])
           e == Len(execs) + 1
       IN /\ Truthy(r)
          /\ execs' = Append(execs, Exec("listener", m, i, p, <<AllDoneLayer(e)>>))
          /\ queue' = Append(queue, Op("mw", e, Len(middleware.listener) + 1,
                                       <<AllDoneLayer(e)>>, 0, ""))
          /\ log' = Append(log, CallEv(e, p, i, m, r, "true"))
    /\ cur' = Idle
    /\ UNCHANGED <<listeners, middleware, msgs, procs, tick, errorHandlers, frames>>

\* An iterator that goes on as soon as Listener.call has returned true.
ListenerCallMatch_doesNotWait ==
    /\ cur.op = "iterate"
    /\ LET p == cur.p
           i == procs[p].completed + 1
           m == procs[p].m
           r == Matcher(listeners[i], msgs[m])
           e == Len(execs) + 1
       IN /\ Truthy(r)
          /\ execs' = Append(execs, Exec("listener", m, i, p, <<AllDoneLayer(e)>>))
          /\ queue' = queue \o << reduceTask(e, <<AllDoneLayer(e)>>),
                                  Op("detectDone", 0, i, <<>>, p, "") >>
          /\ log' = Append(log, CallEv(e, p, i, m, r, "true"))
    /\ cur' = Idle
    /\ UNCHANGED <<listeners, middleware, msgs, procs, tick, errorHandlers, frames>>

\* Listener.call when the matcher result is truthy: executes the listener
\* chain on a new Response with executeListener as the terminal step and
\* allDone as done, and returns true.
ListenerCallMatch ==
    /\ cur.op = "iterate"
    /\ LET p == cur.p
           i == procs[p].completed + 1
           m == procs[p].m
           r == Matcher(listeners[i], msgs[m])
           e == Len(execs) + 1
       IN /\ Truthy(r)
          /\ Middleware_execute(Exec("listener", m, i, p, <<AllDoneLayer(e)>>))
          /\ log' = Append(log, CallEv(e, p, i, m, r, "true"))
    /\ cur' = Idle
    /\ UNCHANGED <<listeners, middleware, msgs, procs, tick, errorHandlers, frames>>

\* A didMatchCallback that keeps anyListenersExecuted in one place for all
\* the invocations of processListeners.
listenerExecuted_sharedFlag ==
    /\ cur.op = "didMatch"
    /\ procs' = [q \in DOMAIN procs |-> [procs[q] EXCEPT !.any = @ \/ (cur.v = "true")]]
    /\ queue' = Append(queue, Op("detectDone", 0, cur.k, <<>>, cur.p, ""))
    /\ cur' = Idle
    /\ log' = Append(log, Ev("didMatch", cur.e, cur.p, cur.k, procs[cur.p].m, cur.v))
    /\ UNCHANGED <<listeners, middleware, msgs, execs, tick, errorHandlers, frames>>

\* A didMatchCallback that counts a listener only when its callback ran.
listenerExecuted_countsCallbacksOnly ==
    /\ cur.op = "didMatch"
    /\ procs' = [procs EXCEPT ![cur.p].any =
                    @ \/ (cur.v = "true"
                            /\ \E j \in 1..Len(log) : log[j].ev = "callback" /\ log[j].e = cur.e)]
    /\ queue' = Append(queue, Op("detectDone", 0, cur.k, <<>>, cur.p, ""))
    /\ cur' = Idle
    /\ log' = Append(log, Ev("didMatch", cur.e, cur.p, cur.k, procs[cur.p].m, cur.v))
    /\ UNCHANGED <<listeners, middleware, msgs, execs, tick, errorHandlers, frames>>

\* The didMatchCallback processListeners passes to Listener.call.
listenerExecuted ==
    /\ cur.op = "didMatch"
    /\ procs' = [procs EXCEPT ![cur.p].any = @ \/ (cur.v = "true")]
    /\ queue' = Append(queue, Op("detectDone", 0, cur.k, <<>>, cur.p, ""))
    /\ cur' = Idle
    /\ log' = Append(log, Ev("didMatch", cur.e, cur.p, cur.k, procs[cur.p].m, cur.v))
    /\ UNCHANGED <<listeners, middleware, msgs, execs, tick, errorHandlers, frames>>

\* An iteration that also stops once a listener has executed.
detectDone_stopsOnMatch ==
    /\ cur.op = "detectDone"
    /\ LET p == cur.p
       IN IF msgs[procs[p].m].done \/ procs[p].any
            THEN /\ cur' = Op("final", 0, 0, <<>>, p, "")
                 /\ procs' = procs
            ELSE /\ cur' = Continue(p, procs[p].completed + 1)
                 /\ procs' = [procs EXCEPT ![p].completed = @ + 1]
    /\ log' = Append(log, Ev("cycleEnd", 0, cur.p, cur.k, procs[cur.p].m, ""))
    /\ UNCHANGED <<listeners, middleware, msgs, execs, queue, tick, errorHandlers, frames>>

\* An iteration that stops after a listener whose chain emitted an error.
detectDone_stopsAfterError ==
    /\ cur.op = "detectDone"
    /\ LET p == cur.p
           failed == \E j \in 1..Len(log) :
                        /\ log[j].ev = "error" /\ log[j].e # 0
                        /\ execs[log[j].e].p = p /\ execs[log[j].e].li = cur.k
       IN IF msgs[procs[p].m].done \/ failed
            THEN /\ cur' = Op("final", 0, 0, <<>>, p, "")
                 /\ procs' = procs
            ELSE /\ cur' = Continue(p, procs[p].completed + 1)
                 /\ procs' = [procs EXCEPT ![p].completed = @ + 1]
    /\ log' = Append(log, Ev("cycleEnd", 0, cur.p, cur.k, procs[cur.p].m, ""))
    /\ UNCHANGED <<listeners, middleware, msgs, execs, queue, tick, errorHandlers, frames>>

\* An iteration that goes on whatever the done flag of the message.
detectDone_ignoresDoneFlag ==
    /\ cur.op = "detectDone"
    /\ cur' = Continue(cur.p, procs[cur.p].completed + 1)
    /\ procs' = [procs EXCEPT ![cur.p].completed = @ + 1]
    /\ log' = Append(log, Ev("cycleEnd", 0, cur.p, cur.k, procs[cur.p].m, ""))
    /\ UNCHANGED <<listeners, middleware, msgs, execs, queue, tick, errorHandlers, frames>>

\* done(context.response.message.done): detectSeries stops at a truthy result
\* and goes on to the next listener otherwise.
detectDone ==
    /\ cur.op = "detectDone"
    /\ LET p == cur.p
       IN IF msgs[procs[p].m].done
            THEN /\ cur' = Op("final", 0, 0, <<>>, p, "")
                 /\ procs' = procs
            ELSE /\ cur' = Continue(p, procs[p].completed + 1)
                 /\ procs' = [procs EXCEPT ![p].completed = @ + 1]
    /\ log' = Append(log, Ev("cycleEnd", 0, cur.p, cur.k, procs[cur.p].m, ""))
    /\ UNCHANGED <<listeners, middleware, msgs, execs, queue, tick, errorHandlers, frames>>

\* A fallback condition without the CatchAllMessage test.
FallsBack_ignoresCatchAll(message, anyListenersExecuted) == ~anyListenersExecuted

\* A fallback condition without the anyListenersExecuted test.
FallsBack_ignoresExecuted(message, anyListenersExecuted) == message.type # "CatchAll"

\* The condition of the catch-all fallback.
FallsBack(message, anyListenersExecuted) ==
    message.type # "CatchAll" /\ ~anyListenersExecuted

\* A fallback that re-dispatches and also defers done.
FallBackToCatchAll_alsoCallsDone ==
    /\ cur.op = "final"
    /\ LET p == cur.p
           m == procs[p].m
       IN /\ FallsBack(msgs[m], procs[p].any)
          /\ msgs' = Append(msgs, CatchAllMessage(m))
          /\ execs' = Append(execs, Exec("receive", Len(msgs) + 1, 0, 0, procs[p].done))
          /\ queue' = queue \o << reduceTask(Len(execs) + 1, procs[p].done),
                                  Op("done", 0, 0, procs[p].done, 0, "") >>
          /\ log' = log \o << Ev("final", 0, p, 0, m, "catchAll"),
                              Ev("receive", Len(execs) + 1, p, 0, Len(msgs) + 1, "") >>
    /\ cur' = Idle
    /\ UNCHANGED <<listeners, middleware, procs, tick, errorHandlers, frames>>

\* A fallback that hands the CatchAllMessage to processListeners directly.
FallBackToCatchAll_skipsReceiveMiddleware ==
    /\ cur.op = "final"
    /\ LET p == cur.p
           m == procs[p].m
       IN /\ FallsBack(msgs[m], procs[p].any)
          /\ msgs' = Append(msgs, CatchAllMessage(m))
          /\ execs' = Append(execs, Exec("receive", Len(msgs) + 1, 0, 0, procs[p].done))
          /\ queue' = Append(queue, Op("mw", Len(execs) + 1, Len(middleware.receive) + 1,
                                       procs[p].done, 0, ""))
          /\ log' = log \o << Ev("final", 0, p, 0, m, "catchAll"),
                              Ev("receive", Len(execs) + 1, p, 0, Len(msgs) + 1, "") >>
    /\ cur' = Idle
    /\ UNCHANGED <<listeners, middleware, procs, tick, errorHandlers, frames>>

\* Final callback of detectSeries, no listener executed: receive is called
\* again with a CatchAllMessage wrapping the message and the same done.
FallBackToCatchAll ==
    /\ cur.op = "final"
    /\ LET p == cur.p
           m == procs[p].m
       IN /\ FallsBack(msgs[m], procs[p].any)
          /\ msgs' = Append(msgs, CatchAllMessage(m))
          /\ Robot_receive(Len(msgs) + 1, procs[p].done)
          /\ log' = log \o << Ev("final", 0, p, 0, m, "catchAll"),
                              Ev("receive", Len(execs) + 1, p, 0, Len(msgs) + 1, "") >>
    /\ cur' = Idle
    /\ UNCHANGED <<listeners, middleware, procs, tick, errorHandlers, frames>>

\* Final callback of detectSeries otherwise: done is deferred to the next tick.
FinishProcessing ==
    /\ cur.op = "final"
    /\ LET p == cur.p
           m == procs[p].m
       IN /\ ~FallsBack(msgs[m], procs[p].any)
          /\ queue' = Append(queue, Op("done", 0, 0, procs[p].done, 0, ""))
          /\ log' = Append(log, Ev("final", 0, p, 0, m, "done"))
    /\ cur' = Idle
    /\ UNCHANGED <<listeners, middleware, msgs, execs, procs, tick, errorHandlers, frames>>

(***************************************************************************)
(* The event loop                                                          *)
(***************************************************************************)
\* An event loop that runs the callback queued last.
RunTask_lastFirst ==
    /\ cur = Idle
    /\ frames = <<>>
    /\ queue # <<>>
    /\ cur' = queue[Len(queue)]
    /\ queue' = SubSeq(queue, 1, Len(queue) - 1)
    /\ tick' = tick + 1
    /\ UNCHANGED <<listeners, middleware, msgs, execs, procs, log, errorHandlers, frames>>

\* The next queued callback starts once the current one has returned, every
\* call made in it included.
RunTask ==
    /\ cur = Idle
    /\ frames = <<>>
    /\ queue # <<>>
    /\ cur' = Head(queue)
    /\ queue' = Tail(queue)
    /\ tick' = tick + 1
    /\ UNCHANGED <<listeners, middleware, msgs, execs, procs, log, errorHandlers, frames>>

Register ==
    \/ hear("a")
    \/ \E matcher \in {"true", "throw"} : listen(matcher)
    \/ catchAll
    \/ receiveMiddleware
    \/ listenerMiddleware
    \/ responseMiddleware

Dispatch ==
    \/ RunTask
    \/ MiddlewareCallsNext
    \/ MiddlewareFinishesThenNext
    \/ MiddlewareChangesStrings
    \/ MiddlewareCallsDone
    \/ MiddlewareThrows
    \/ executeListener
    \/ runAdapterSend
    \/ processListeners
    \/ ListenerCallThrows
    \/ ListenerCallNoMatch
    \/ ListenerCallMatch
    \/ listenerExecuted
    \/ detectDone
    \/ FallBackToCatchAll
    \/ FinishProcessing
    \/ CallWrappedDone
    \/ CallListenerAllDone
    \/ CallResponseMiddlewareDone
    \/ CallCompletionCallback

Next == Register \/ receive \/ Dispatch

Spec == Init /\ [][Next]_vars

\* The event loop keeps running queued callbacks and the running call proceeds.
LiveSpec == Init /\ [][Next]_vars /\ WF_vars(Dispatch)

(***************************************************************************)
(* Robots whose scripts are loaded                                         *)
(***************************************************************************)
\* Registrations made by the scripts of a robot before the adapter delivers
\* the first message: two listeners for the same text below a listener
\* middleware, and a throwing matcher before a catchAll listener below a
\* receive and a response middleware.
LoadedRobots ==
    { [listeners |-> << Listener("hear", "a", ""), Listener("hear", "a", "") >>,
       middleware |-> [receive |-> <<>>, listener |-> <<MiddlewareFunc(3)>>, response |-> <<>>]],
      [listeners |-> << Listener("listen", "", "throw"), Listener("catchAll", "", "") >>,
       middleware |-> [receive |-> <<MiddlewareFunc(3)>>, listener |-> <<>>, response |-> <<MiddlewareFunc(3)>>]] }

LoadedInit ==
    /\ \E r \in LoadedRobots : listeners = r.listeners /\ middleware = r.middleware
    /\ msgs = <<>>
    /\ execs = <<>>
    /\ procs = <<>>
    /\ queue = <<>>
    /\ cur = Idle
    /\ log = <<>>
    /\ tick = 0
    /\ frames = <<>>
    /\ errorHandlers = <<>>

LoadedNext == receive \/ Dispatch

LoadedSpec == LoadedInit /\ [][LoadedNext]_vars

\* The event loop keeps running queued callbacks and the running call proceeds.
LiveLoadedSpec == LoadedInit /\ [][LoadedNext]_vars /\ WF_vars(Dispatch)

\* The same robots, receiving a message of any class.
VariantNext == receive \/ receiveOther \/ Dispatch

VariantSpec == LoadedInit /\ [][VariantNext]_vars

(***************************************************************************)
(* Registering middleware functions of any parameter count                 *)
(***************************************************************************)
\* Bound on the number of calls of Middleware.register.
MaxAttempts == 2

\* Declared parameter counts of the functions given to register.
Lengths == {2, 3, 4}

RegisterCalls == {j \in 1..Len(log) : log[j].ev = "register"}

\* A script calls robot.receiveMiddleware, listenerMiddleware or
\* responseMiddleware, that is register on that chain, with some function.
registerMiddleware ==
    /\ msgs = <<>>
    /\ Cardinality(RegisterCalls) < MaxAttempts
    /\ \E chain \in {"receive", "listener", "response"}, length \in Lengths :
          LET r == Middleware_register(middleware[chain], MiddlewareFunc(length))
          IN /\ middleware' = [middleware EXCEPT ![chain] = r.stack]
             /\ log' = Append(log, [ev |-> "register", e |-> 0, p |-> 0, i |-> 0, m |-> 0,
                                    v |-> IF r.threw THEN "throw" ELSE "ok", t |-> tick,
                                    chain |-> chain, fn |-> MiddlewareFunc(length),
                                    before |-> middleware[chain], after |-> r.stack])
    /\ UNCHANGED <<listeners, msgs, execs, procs, queue, cur, tick, errorHandlers, frames>>

\* A robot without listeners: registrations, then a message through the
\* receive chain, its fallback and the completion callback.
RegisterNext ==
    \/ registerMiddleware
    \/ receive
    \/ RunTask
    \/ MiddlewareCallsNext
    \/ MiddlewareFinishesThenNext
    \/ MiddlewareCallsDone
    \/ MiddlewareThrows
    \/ processListeners
    \/ FallBackToCatchAll
    \/ FinishProcessing
    \/ CallWrappedDone
    \/ CallCompletionCallback

RegisterSpec == Init /\ [][RegisterNext]_vars

(***************************************************************************)
(* Two messages received one right after the other                         *)
(***************************************************************************)
\* A robot whose scripts registered a listener with hear and one with
\* catchAll.
PairInit ==
    /\ listeners = << Listener("hear", "a", ""), Listener("catchAll", "", "") >>
    /\ middleware = [receive |-> <<>>, listener |-> <<>>, response |-> <<>>]
    /\ msgs = <<>>
    /\ execs = <<>>
    /\ procs = <<>>
    /\ queue = <<>>
    /\ cur = Idle
    /\ log = <<>>
    /\ tick = 0
    /\ errorHandlers = <<>>
    /\ frames = <<>>

\* The adapter hands a second TextMessage to the robot right after the
\* first, before any queued callback has run.
receiveSecond ==
    /\ Len(msgs) = 1
    /\ cur = Idle
    /\ tick = 0
    /\ \E text \in Texts : msgs' = Append(msgs, TextMessage(text))
    /\ Robot_receive(2, <<CbLayer(2)>>)
    /\ log' = Append(log, Ev("receive", Len(execs) + 1, 0, 0, 2, ""))
    /\ UNCHANGED <<listeners, middleware, procs, cur, tick, errorHandlers, frames>>

PairNext ==
    \/ receive
    \/ receiveSecond
    \/ RunTask
    \/ executeListener
    \/ runAdapterSend
    \/ processListeners
    \/ ListenerCallNoMatch
    \/ ListenerCallMatch
    \/ listenerExecuted
    \/ detectDone
    \/ FallBackToCatchAll
    \/ FinishProcessing
    \/ CallListenerAllDone
    \/ CallResponseMiddlewareDone
    \/ CallCompletionCallback

PairSpec == PairInit /\ [][PairNext]_vars

(***************************************************************************)
(* Middleware that throw after calling next                                *)
(***************************************************************************)
ThrowNext == LoadedNext \/ MiddlewareCallsNextThenThrows \/ ThrowAfterNext

ThrowSpec == LoadedInit /\ [][ThrowNext]_vars

(***************************************************************************)
(* Error events and the handlers registered with Robot.error               *)
(***************************************************************************)
\* Bound on the number of handlers registered with Robot.error.
MaxErrorHandlers == 2

\* A loaded robot whose scripts also registered 1..MaxErrorHandlers error
\* handlers.
ErrorInit ==
    /\ \E r \in LoadedRobots : listeners = r.listeners /\ middleware = r.middleware
    /\ \E n \in 1..MaxErrorHandlers : errorHandlers = [k \in 1..n |-> Fn("errorHandler")]
    /\ msgs = <<>>
    /\ execs = <<>>
    /\ procs = <<>>
    /\ queue = <<>>
    /\ cur = Idle
    /\ log = <<>>
    /\ tick = 0
    /\ frames = <<>>

\* The error events the robot's subscriber has not been called for yet.
Undelivered ==
    {j \in 1..Len(log) : /\ log[j].ev = "error"
                         /\ ~\E h \in 1..Len(log) : log[h].ev = "subscriber" /\ log[h].of = j}

\* invokeErrorHandlers(error, res) for error event j: every handler is called
\* in registration order with (error, res), inside try/catch; bs tells what
\* each handler does.
invokeErrorHandlers(error, res, bs, j) ==
    [k \in 1..Len(errorHandlers) |->
        [ev |-> "errorHandler", e |-> 0, p |-> 0, i |-> k, m |-> 0, v |-> bs[k], t |-> tick,
         of |-> j, error |-> error, res |-> res]]

\* The subscriber the constructor registers for error events,
\* ([err, res]) => this.invokeErrorHandlers(err, res), called by the emitter
\* with the data of the oldest event not yet delivered.  The emitter calls
\* its subscribers from a promise job, and the host runs promise jobs once the
\* process.nextTick queue is empty.  Data that is an array is destructured (res is
\* undefined when it has one element).  Data that is an exception object is not
\* iterable: the destructuring throws a TypeError and no handler is invoked;
\* the promise returned by emit rejects, which the host either reports as an
\* uncaught exception, so that _onUncaughtException emits error with
\* [TypeError], or only warns about.
onError ==
    /\ cur = Idle
    /\ queue = <<>>
    /\ Undelivered # {}
    /\ LET j == CHOOSE x \in Undelivered : \A y \in Undelivered : x <= y
           data == log[j].data
           called(v) == [ev |-> "subscriber", e |-> 0, p |-> 0, i |-> 0, m |-> 0, v |-> v,
                         t |-> tick, of |-> j]
       IN IF "array" \in DOMAIN data
            THEN \E bs \in [1..Len(errorHandlers) -> {"ok", "throw"}] :
                    log' = log \o << called("invoked") >>
                               \o invokeErrorHandlers(data.array[1],
                                      IF Len(data.array) >= 2 THEN data.array[2] ELSE Undefined,
                                      bs, j)
            ELSE \E raised \in BOOLEAN :
                    log' = log \o << called("TypeError") >>
                               \o IF raised
                                    THEN << emitError(0, 0, 0, 0, "uncaught",
                                              << ArrayOf(<< Exception("subscriber", j, 0) >>) >>) >>
                                    ELSE <<>>
    /\ UNCHANGED <<listeners, middleware, msgs, execs, procs, queue, cur, tick, errorHandlers, frames>>

ErrorNext == receive \/ Dispatch \/ onError

ErrorSpec == ErrorInit /\ [][ErrorNext]_vars

(***************************************************************************)
(* Receive middleware that edit the message                                *)
(***************************************************************************)
\* A robot whose scripts registered two receive middleware and one listener
\* with hear.
EditInit ==
    /\ listeners = << Listener("hear", "a", "") >>
    /\ middleware = [receive |-> << MiddlewareFunc(3), MiddlewareFunc(3) >>,
                     listener |-> <<>>, response |-> <<>>]
    /\ msgs = <<>>
    /\ execs = <<>>
    /\ procs = <<>>
    /\ queue = <<>>
    /\ cur = Idle
    /\ log = <<>>
    /\ tick = 0
    /\ frames = <<>>
    /\ errorHandlers = <<>>

EditNext ==
    \/ receive
    \/ RunTask
    \/ MiddlewareCallsNext
    \/ MiddlewareFinishesThenNext
    \/ MiddlewareEditsMessage
    \/ MiddlewareCallsDone
    \/ MiddlewareThrows
    \/ executeListener
    \/ runAdapterSend
    \/ processListeners
    \/ ListenerCallNoMatch
    \/ ListenerCallMatch
    \/ listenerExecuted
    \/ detectDone
    \/ FallBackToCatchAll
    \/ FinishProcessing
    \/ CallWrappedDone
    \/ CallListenerAllDone
    \/ CallResponseMiddlewareDone
    \/ CallCompletionCallback

EditSpec == EditInit /\ [][EditNext]_vars

(***************************************************************************)
(* A receive chain of several middleware                                   *)
(***************************************************************************)
\* Bound on the number of receive middleware of the robot.
MaxChain == 3

\* A robot whose scripts registered 1..MaxChain receive middleware and no
\* listener.
ChainInit ==
    /\ listeners = <<>>
    /\ \E n \in 1..MaxChain :
          middleware = [receive |-> [k \in 1..n |-> MiddlewareFunc(3)],
                        listener |-> <<>>, response |-> <<>>]
    /\ msgs = <<>>
    /\ execs = <<>>
    /\ procs = <<>>
    /\ queue = <<>>
    /\ cur = Idle
    /\ log = <<>>
    /\ tick = 0
    /\ frames = <<>>
    /\ errorHandlers = <<>>

\* Robot.receive and the steps of the receive chain.
ChainNext ==
    \/ receive
    \/ RunTask
    \/ MiddlewareCallsNext
    \/ MiddlewareFinishesThenNext
    \/ MiddlewareCallsDone
    \/ MiddlewareThrows
    \/ processListeners
    \/ FallBackToCatchAll
    \/ FinishProcessing
    \/ CallWrappedDone
    \/ CallCompletionCallback

ChainSpec == ChainInit /\ [][ChainNext]_vars

(***************************************************************************)
(* Constructing a Listener                                                 *)
(***************************************************************************)
\* Bound on the number of Listener constructions.
MaxConstructions == 2

\* Arguments of the constructor: undefined, null, a function, a string, and
\* an options map, given by its id ("absent" when it has no id key).
OptionsMap(id) == [type |-> "object", v |-> id]
Nullish(x) == x.type \in {"undefined", "null"}

\* options.id, for an object or a function.
IdOf(o) == IF o.type = "object" THEN o.v ELSE "absent"

\* new Listener(robot, matcher, options, callback): throws for a missing
\* matcher; takes options as the callback, and {} as options, when callback
\* is missing; reads options.id, which throws a TypeError when options is
\* undefined or null, and sets it to null when it is missing; then throws for
\* a callback that is missing or no function.
Listener_constructor(matcher, options, callback) ==
    IF Nullish(matcher)
      THEN [outcome |-> "Error: Missing a matcher for Listener"]
      ELSE LET cb == IF Nullish(callback) THEN options ELSE callback
               opts == IF Nullish(callback) THEN OptionsMap("absent") ELSE options
           IN IF Nullish(opts)
                THEN [outcome |-> "TypeError"]
                ELSE LET id == IF IdOf(opts) \in {"absent", "null"} THEN "null" ELSE IdOf(opts)
                     IN IF Nullish(cb) \/ cb.type # "function"
                          THEN [outcome |-> "Error: Missing a callback for Listener"]
                          ELSE [outcome |-> "ok", callback |-> cb, id |-> id,
                                options |-> IF opts.type = "object" THEN OptionsMap(id)
                                                                    ELSE opts]

\* The values a script may give for matcher, options and callback.
ListenerArgs ==
    LET Null == [type |-> "null", v |-> ""]
    IN [matcher |-> {Undefined, Null, Fn("matcher")},
        options |-> {Undefined, Null, Fn("callback"), OptionsMap("absent"), OptionsMap("x")},
        callback |-> {Undefined, Null, Fn("callback"), Str("x")}]

Constructions == {j \in 1..Len(log) : log[j].ev = "new Listener"}

\* robot.listen(matcher, options, callback): constructs the Listener and, when
\* the constructor returns, pushes it onto the listeners.
constructListener ==
    /\ msgs = <<>>
    /\ Cardinality(Constructions) < MaxConstructions
    /\ \E matcher \in ListenerArgs.matcher, options \in ListenerArgs.options,
             callback \in ListenerArgs.callback :
          LET r == Listener_constructor(matcher, options, callback)
          IN /\ listeners' = IF r.outcome = "ok"
                                THEN Append(listeners, Listener("listen", "", "true"))
                                ELSE listeners
             /\ log' = Append(log, [ev |-> "new Listener", e |-> 0, p |-> 0, i |-> 0, m |-> 0,
                                    v |-> r.outcome, t |-> tick, matcher |-> matcher,
                                    options |-> options, callback |-> callback,
                                    result |-> r])
    /\ UNCHANGED <<middleware, msgs, execs, procs, queue, cur, tick, errorHandlers, frames>>

ListenerSpec == Init /\ [][constructListener]_vars

(***************************************************************************)
(* Outbound actions called on a Response                                   *)
(***************************************************************************)
Methods == {"send", "emote", "reply", "topic", "play", "locked"}

\* The strings a script gives to an outbound action: one or more.
StringArgs ==
    UNION { [1..n -> {Str("x"), Str("y")}] : n \in 1..MaxStrings }

Outbound(method, res, li, p, args) ==
    CASE method = "send" -> Response_send(res, li, p, args)
      [] method = "emote" -> Response_emote(res, li, p, args)
      [] method = "reply" -> Response_reply(res, li, p, args)
      [] method = "topic" -> Response_topic(res, li, p, args)
      [] method = "play" -> Response_play(res, li, p, args)
      [] OTHER -> Response_locked(res, li, p, args)

\* A robot with some response middleware registered and the Response of a
\* message that matched.
ResponseInit ==
    /\ listeners = <<>>
    /\ \E n \in 0..MaxResponseMiddleware :
          middleware = [receive |-> <<>>, listener |-> <<>>, response |-> [j \in 1..n |-> MiddlewareFunc(3)]]
    /\ msgs = <<TextMessage("a")>>
    /\ execs = <<>>
    /\ procs = <<>>
    /\ queue = <<>>
    /\ cur = Idle
    /\ log = <<>>
    /\ tick = 0
    /\ frames = <<>>
    /\ errorHandlers = <<>>

\* A script calls an outbound action on the Response, with one or more
\* strings and possibly a trailing callback.
OutboundActionCalled ==
    /\ execs = <<>>
    /\ cur = Idle
    /\ \E method \in Methods, strings \in StringArgs, callback \in {Undefined, Fn("callback")} :
          LET res == Response(RobotRef, MessageRef(1), "match")
              args == IF callback = Undefined THEN strings ELSE Append(strings, callback)
          IN /\ Outbound(method, res, 0, 0, args)
             /\ log' = Append(log, [ev |-> "outbound", e |-> Len(execs) + 1, p |-> 0,
                                    i |-> 0, m |-> 1, v |-> method, t |-> tick,
                                    strings |-> strings, callback |-> callback,
                                    envelope |-> res.envelope])
    /\ UNCHANGED <<listeners, middleware, msgs, procs, cur, tick, errorHandlers, frames>>

ResponseNext ==
    \/ OutboundActionCalled
    \/ RunTask
    \/ MiddlewareCallsNext
    \/ MiddlewareChangesStrings
    \/ MiddlewareCallsDone
    \/ MiddlewareThrows
    \/ runAdapterSend
    \/ CallWrappedDone
    \/ CallResponseMiddlewareDone

ResponseSpec == ResponseInit /\ [][ResponseNext]_vars

(***************************************************************************)
(* Reading the history                                                     *)
(***************************************************************************)
LogIdx == 1..Len(log)
ExecIds == 1..Len(execs)
ProcIds == 1..Len(procs)

IsPrefix(s, t) == Len(s) <= Len(t) /\ \A j \in 1..Len(s) : s[j] = t[j]

\* The steps of chain execution e among the first n history entries:
\* middleware invoked, terminal step, wrapped done run.
ChainTag(x) == IF x.ev = "terminal" THEN <<"terminal", 0>> ELSE <<x.ev, x.i>>
ChainSteps(e, n) ==
    LET evs == SelectSeq(SubSeq(log, 1, n),
                         LAMBDA x : x.e = e /\ x.ev \in {"mw", "terminal", "done"})
    IN [j \in 1..Len(evs) |-> ChainTag(evs[j])]

\* mw1, ..., mwn, terminal, doneN, ..., done1
DownThenUp(n) ==
    [j \in 1..(2 * n + 1) |->
        IF j <= n THEN <<"mw", j>>
        ELSE IF j = n + 1 THEN <<"terminal", 0>>
        ELSE <<"done", 2 * n + 2 - j>>]

\* History entry x is the invocation of the done function d.
IsInvocationOf(d, x) ==
    LET top == d[Len(d)]
    IN CASE top.t = "cb" -> x.ev = "cb" /\ x.m = top.m
         [] top.t = "wrap" -> x.ev = "done" /\ x.e = top.e /\ x.i = top.k
         [] OTHER -> x.ev = top.t /\ x.e = top.e

\* History entry x is the invocation of the done function given to execution e.
IsFinalDoneOf(e, x) == IsInvocationOf(execs[e].done0, x)

FinalDones(e) == {j \in LogIdx : IsFinalDoneOf(e, log[j])}

\* Every middleware execution e has invoked called next with a wrapped done.
AllWrap(e) == \A j \in LogIdx : (log[j].ev = "mw" /\ log[j].e = e) => log[j].v = "nextWrap"

\* C1: when every middleware of a receive or listener chain calls next with
\* its own wrapped done, an execution of the chain invokes mw1, ..., mwn, then
\* the terminal step, then doneN, ..., done1, and only then, once, the done
\* function it was given.
C1_DownThenReverseUp ==
    \A e \in ExecIds :
        (execs[e].chain \in {"receive", "listener"} /\ AllWrap(e)) =>
            /\ IsPrefix(ChainSteps(e, Len(log)), DownThenUp(Len(Stack(e))))
            /\ Cardinality(FinalDones(e)) <= 1
            /\ \A j \in FinalDones(e) :
                  ChainSteps(e, j - 1) = DownThenUp(Len(Stack(e)))

\* A receive chain of two wrapping middleware has gone down, through a
\* listener pass, and up again, and the completion callback has run.
C1_Witness ==
    /\ \E e \in ExecIds :
          /\ execs[e].chain = "receive"
          /\ Len(Stack(e)) = 2
          /\ AllWrap(e)
          /\ FinalDones(e) # {}
          /\ ChainSteps(e, Len(log)) = DownThenUp(2)
    /\ \E j \in LogIdx : log[j].ev = "cb"

\* C2: when a middleware of any chain calls done() without calling next, no
\* later middleware of that execution and no terminal step is invoked (no
\* listener callback, no listener call, no adapter method), and the execution
\* emits no error event.
C2_DoneSkipsTheRest ==
    \A j \in LogIdx :
        (log[j].ev = "mw" /\ log[j].v = "done") =>
            LET e == log[j].e
                k == log[j].i
            IN \A h \in LogIdx :
                  /\ ~(log[h].ev = "mw" /\ log[h].e = e /\ log[h].i > k)
                  /\ ~(log[h].e = e
                        /\ log[h].ev \in {"terminal", "callback", "adapter", "error"})
                  /\ ~(execs[e].chain = "receive"
                        /\ log[h].ev = "call" /\ log[h].m = execs[e].m)

\* The first of two receive middleware called done(), and the completion
\* callback has run.
C2_Witness ==
    /\ \E j \in LogIdx :
          /\ log[j].ev = "mw" /\ log[j].v = "done" /\ log[j].i = 1
          /\ execs[log[j].e].chain = "receive"
          /\ Len(middleware.receive) = 2
    /\ \E j \in LogIdx : log[j].ev = "cb"

CbEvents == {j \in LogIdx : log[j].ev = "cb"}

\* The listener cycle started by the call at history entry j has not ended.
CycleOpen(j) ==
    /\ log[j].ev = "call"
    /\ log[j].v # "throw"
    /\ ~\E h \in LogIdx :
          h > j /\ log[h].ev = "cycleEnd" /\ log[h].p = log[j].p /\ log[h].i = log[j].i

\* C3: the completion callback of receive is invoked at most once, and when it
\* is invoked every listener cycle started for the message has ended, every
\* receive chain run for it (the one of the CatchAll re-dispatch included) has
\* called its done, and nothing of the dispatch happens afterwards: only
\* response chains started by callbacks may still be running.
C3_CompletionOnceAndLast ==
    /\ Cardinality(CbEvents) <= 1
    /\ \A c \in CbEvents :
          /\ \A j \in LogIdx : ~CycleOpen(j)
          /\ \A e \in ExecIds : execs[e].chain = "receive" => FinalDones(e) # {}
          /\ \A j \in LogIdx :
                j > c => (log[j].e # 0 /\ execs[log[j].e].chain = "response")

\* The completion callback has run after a CatchAll re-dispatch in which a
\* listener matched and ran its callback.
C3_Witness ==
    /\ CbEvents # {}
    /\ \E j \in LogIdx :
          /\ log[j].ev = "callback"
          /\ msgs[procs[log[j].p].m].type = "CatchAll"
    /\ Len(listeners) >= 2

\* C4: once a message has been handed to receive, its completion callback is
\* eventually invoked, whichever matchers, listener callbacks and middleware
\* throw, as long as the event loop keeps running the queued callbacks.
C4_DispatchCompletes == (msgs # <<>>) ~> (CbEvents # {})

\* A dispatch has completed in which a matcher threw and a listener callback
\* threw.
C4_Witness ==
    /\ CbEvents # {}
    /\ \E j \in LogIdx : log[j].ev = "error" /\ log[j].v = "call"
    /\ \E j \in LogIdx : log[j].ev = "error" /\ log[j].v = "callback"

ListenerIds == 1..Len(listeners)
MsgIds == 1..Len(msgs)

\* Every middleware invoked so far in executions of the chain has called next,
\* without finishing the message.
LetsThrough(chain) ==
    \A j \in LogIdx :
        (log[j].ev = "mw" /\ execs[log[j].e].chain = chain) =>
            log[j].v \in {"next", "nextWrap"}

\* The runs of listener i's callback in the listener pass of message m.
CallbackRuns(i, m) ==
    {j \in LogIdx : log[j].ev = "callback" /\ log[j].i = i /\ procs[log[j].p].m = m}

CycleOf(x) ==
    IF x.e # 0 /\ execs[x.e].chain = "listener"
      THEN <<execs[x.e].p, execs[x.e].li>>
      ELSE IF x.e = 0 /\ x.ev \in {"call", "didMatch", "cycleEnd", "error"}
             THEN <<x.p, x.i>>
             ELSE <<0, 0>>

CallsOf(p) == SelectSeq(log, LAMBDA x : x.ev = "call" /\ x.p = p)

\* C6: processListeners calls the listeners in registration order, one after
\* the other: the calls of one invocation are those of listeners 1, 2, 3, ...
\* in this order, nothing of listener i's cycle (matcher, middleware down and
\* up, callback, match-result callback) happens once a later listener has
\* been called, a listener is called only when the cycle of the one before
\* has ended, and at most one cycle is in progress.
C6_ListenersInOrderSerially ==
    \A p \in ProcIds :
        /\ \A n \in 1..Len(CallsOf(p)) : CallsOf(p)[n].i = n
        /\ \A j \in LogIdx :
              CycleOf(log[j])[1] = p =>
                  ~\E h \in 1..j : /\ log[h].ev = "call"
                                   /\ log[h].p = p
                                   /\ log[h].i > CycleOf(log[j])[2]
        /\ \A j \in LogIdx :
              (log[j].ev = "call" /\ log[j].p = p) =>
                  \A h \in 1..(j - 1) : ~(CycleOpen(h) /\ log[h].p = p)
        /\ Cardinality({j \in LogIdx : CycleOpen(j) /\ log[j].p = p}) <= 1

\* The first listener matched and ran its callback, and the second listener
\* was called afterwards and matched too.
C6_Witness ==
    \E p \in ProcIds :
        /\ Len(CallsOf(p)) >= 2
        /\ Truthy(CallsOf(p)[1].v)
        /\ Truthy(CallsOf(p)[2].v)
        /\ \E j \in LogIdx : log[j].ev = "callback" /\ CycleOf(log[j]) = <<p, 1>>
        /\ \E j \in LogIdx : log[j].ev = "callback" /\ CycleOf(log[j]) = <<p, 2>>

CatchAlls == {m \in MsgIds : msgs[m].type = "CatchAll"}
Wrapping(m) == {c \in CatchAlls : msgs[c].inner = m}
ReceiveExecs == {e \in ExecIds : execs[e].chain = "receive"}
ReportedMatch(p) ==
    \E h \in LogIdx : log[h].ev = "didMatch" /\ log[h].p = p /\ log[h].v = "true"

\* C7: when the listener pass of a non-CatchAll message M ends without any
\* listener having reported a match, exactly one CatchAllMessage wrapping M
\* exists and receive has been called once with it and with the done
\* function of the pass; the pass of a CatchAll message never creates a
\* message nor calls receive; so receive is re-entered at most once.
C7_OneCatchAllPerMessage ==
    /\ \A m \in MsgIds : Cardinality(Wrapping(m)) <= 1
    /\ \A c \in CatchAlls : msgs[msgs[c].inner].type # "CatchAll"
    /\ Cardinality(ReceiveExecs) <= 1 + Cardinality(CatchAlls)
    /\ \A j \in LogIdx :
          log[j].ev = "final" =>
              LET p == log[j].p
                  m == log[j].m
              IN /\ (msgs[m].type # "CatchAll" /\ ~ReportedMatch(p)) =>
                        /\ log[j].v = "catchAll"
                        /\ \E c \in Wrapping(m) :
                              /\ Cardinality({e \in ReceiveExecs : execs[e].m = c}) = 1
                              /\ \A e \in ReceiveExecs :
                                    execs[e].m = c => execs[e].done0 = procs[p].done
                 /\ msgs[m].type = "CatchAll" =>
                        /\ log[j].v = "done"
                        /\ Wrapping(m) = {}

\* A dispatch has completed in which no listener matched the message and none
\* matched the CatchAllMessage either, below a wrapping receive middleware.
C7_Witness ==
    /\ CbEvents # {}
    /\ Len(listeners) >= 1
    /\ Len(middleware.receive) >= 1
    /\ \E j \in LogIdx :
          /\ log[j].ev = "final"
          /\ msgs[log[j].m].type = "CatchAll"
          /\ ~ReportedMatch(log[j].p)
          /\ Len(procs[log[j].p].done) >= 2

\* C8: when a listener has reported a match for a non-CatchAll message, no
\* CatchAllMessage is created for it, receive is not called again, no
\* callback registered with catchAll runs, and the pass ends by deferring
\* done: done is invoked in a later tick than the end of the pass.
C8_NoFallbackAfterMatch ==
    \A p \in ProcIds :
        (msgs[procs[p].m].type # "CatchAll" /\ ReportedMatch(p)) =>
            /\ Wrapping(procs[p].m) = {}
            /\ ~\E j \in LogIdx : log[j].ev = "receive" /\ log[j].p = p
            /\ ~\E j \in LogIdx : log[j].ev = "callback" /\ listeners[log[j].i].kind = "catchAll"
            /\ \A j \in LogIdx :
                  (log[j].ev = "final" /\ log[j].p = p) =>
                      /\ log[j].v = "done"
                      /\ \A h \in LogIdx :
                            IsInvocationOf(procs[p].done, log[h]) =>
                                (h > j /\ log[h].t > log[j].t)

\* A dispatch has completed in which a listener matched while a catchAll
\* listener was registered.
C8_Witness ==
    /\ CbEvents # {}
    /\ \E i \in ListenerIds : listeners[i].kind = "catchAll"
    /\ \E p \in ProcIds :
          /\ ReportedMatch(p)
          /\ \E h \in LogIdx : IsInvocationOf(procs[p].done, log[h])

\* C9: once the callback of listener i has called response.finish() in the
\* listener pass of a non-CatchAll message M, no listener registered after i
\* is called for M and no callback of such a listener runs for M.
C9_FinishStopsIteration ==
    \A j \in LogIdx :
        ( /\ log[j].ev = "callback"
          /\ log[j].v = "finish"
          /\ msgs[procs[log[j].p].m].type # "CatchAll" ) =>
            \A h \in LogIdx :
                ~( /\ log[h].ev \in {"call", "callback"}
                   /\ log[h].p # 0
                   /\ procs[log[h].p].m = procs[log[j].p].m
                   /\ log[h].i > log[j].i )

\* The first listener's callback finished the message, a later listener
\* would have matched it, and the dispatch has completed.
C9_Witness ==
    /\ CbEvents # {}
    /\ \E j \in LogIdx :
          /\ log[j].ev = "callback" /\ log[j].v = "finish" /\ log[j].i = 1
          /\ log[j].m = 1
          /\ \E i \in ListenerIds : i > 1 /\ Truthy(Matcher(listeners[i], msgs[1]))

\* C10: when the done flag of the message is already true as processListeners
\* starts (a receive middleware called context.response.finish() and then
\* next), no listener is called for that message.
C10_FinishedMessageSkipsAllListeners ==
    \A j \in LogIdx :
        ( /\ log[j].ev = "terminal"
          /\ execs[log[j].e].chain = "receive"
          /\ \E h \in 1..j : /\ log[h].ev = "mw"
                             /\ log[h].e = log[j].e
                             /\ log[h].v = "finishNext" ) =>
            ~\E c \in LogIdx : log[c].ev = "call" /\ log[c].p = log[j].p

\* C11: once the callback of a listener registered with catchAll has called
\* response.finish() in the pass of a CatchAll message, no listener registered
\* after it is called for that CatchAll message.
C11_CatchAllFinishStopsIteration ==
    \A j \in LogIdx :
        ( /\ log[j].ev = "callback"
          /\ log[j].v = "finish"
          /\ listeners[log[j].i].kind = "catchAll"
          /\ msgs[procs[log[j].p].m].type = "CatchAll" ) =>
            \A h \in LogIdx :
                ~( /\ log[h].ev = "call"
                   /\ log[h].p = log[j].p
                   /\ log[h].i > log[j].i )

\* The values an error event carries: its data, or the elements of the data
\* when it is an array, as the robot's own subscriber reads it.
Carried(x) == IF "array" \in DOMAIN x.data THEN x.data.array ELSE <<x.data>>

\* The message a listener's callback is to work on in pass p: the message
\* dispatched, unwrapped for a listener registered with catchAll.
OriginalMessage(p, i) ==
    IF listeners[i].kind = "catchAll" THEN msgs[procs[p].m].inner ELSE procs[p].m

DidMatchReports(p, i, v) ==
    {h \in LogIdx : log[h].ev = "didMatch" /\ log[h].p = p /\ log[h].i = i /\ log[h].v = v}

CycleEnded(p, i) ==
    \E h \in LogIdx : log[h].ev = "cycleEnd" /\ log[h].p = p /\ log[h].i = i

\* C12: when the callback of a matched listener throws, an error event is
\* emitted at once carrying the exception thrown and a Response of the robot
\* whose message is the original message, and the listener's call reports
\* true, never false, to didMatchCallback: once, before its cycle ends.
C12_CallbackThrowReported ==
    \A j \in LogIdx :
        (log[j].ev = "callback" /\ log[j].v = "throw") =>
            LET e == log[j].e
                p == log[j].p
                i == log[j].i
            IN /\ j < Len(log)
               /\ log[j + 1].ev = "error"
               /\ Len(Carried(log[j + 1])) = 2
               /\ Carried(log[j + 1])[1] = Exception("callback", e, i)
               /\ Carried(log[j + 1])[2].robot = RobotRef
               /\ Carried(log[j + 1])[2].message = MessageRef(OriginalMessage(p, i))
               /\ DidMatchReports(p, i, "false") = {}
               /\ Cardinality(DidMatchReports(p, i, "true")) <= 1
               /\ CycleEnded(p, i) => Cardinality(DidMatchReports(p, i, "true")) = 1

\* C13: when a listener's call throws inside processListeners, an error event
\* is emitted carrying the exception and a Response of the robot whose message
\* is the message being dispatched and whose match is empty, the listener
\* reports no match, and processListeners goes on with the next listener.
C13_ThrowingCallReported ==
    \A j \in LogIdx :
        (log[j].ev = "call" /\ log[j].v = "throw") =>
            LET p == log[j].p
                i == log[j].i
            IN /\ j < Len(log)
               /\ log[j + 1].ev = "error"
               /\ Len(Carried(log[j + 1])) = 2
               /\ Carried(log[j + 1])[1] = Exception("matcher", p, i)
               /\ Carried(log[j + 1])[2].robot = RobotRef
               /\ Carried(log[j + 1])[2].message = MessageRef(log[j].m)
               /\ Carried(log[j + 1])[2].match = "[]"
               /\ DidMatchReports(p, i, "true") = {}
               /\ (j + 2 <= Len(log) /\ i < Len(listeners)) =>
                      (log[j + 2].ev = "call" /\ log[j + 2].p = p /\ log[j + 2].i = i + 1)

\* The middleware of execution e below k that called next with a wrapped done.
WrapsBelow(e, k) ==
    SelectSeq([n \in 1..(k - 1) |-> n],
              LAMBDA n : \E h \in LogIdx : /\ log[h].ev = "mw" /\ log[h].e = e
                                            /\ log[h].i = n /\ log[h].v = "nextWrap")

\* mw1, ..., mwk, then the wrappers installed below k, the last one first.
DownThenAbort(e, k) ==
    LET w == WrapsBelow(e, k)
    IN [n \in 1..k |-> <<"mw", n>>] \o [n \in 1..Len(w) |-> <<"done", w[Len(w) + 1 - n]>>]

\* C14: when middleware k of a chain throws before calling next or done, an
\* error event is emitted at once carrying the exception and the Response of
\* the context, no middleware after k and no terminal step is invoked, and
\* the done function current at k is invoked as if k had called done(): the
\* wrappers installed by middleware 1..k-1 run, the last one first, and then,
\* once, the done function given to the execution.
C14_ThrowActsAsDone ==
    \A j \in LogIdx :
        (log[j].ev = "mw" /\ log[j].v = "throw") =>
            LET e == log[j].e
                k == log[j].i
            IN /\ j < Len(log)
               /\ log[j + 1].ev = "error"
               /\ Carried(log[j + 1]) = << Exception("middleware", e, k), ContextResponse(e) >>
               /\ ContextResponse(e).robot = RobotRef
               /\ ContextResponse(e).message = MessageRef(execs[e].m)
               /\ \A h \in LogIdx :
                     log[h].e = e =>
                         /\ ~(log[h].ev = "mw" /\ log[h].i > k)
                         /\ log[h].ev \notin {"terminal", "callback", "adapter"}
                         /\ h > j => log[h].ev # "call"
               /\ IsPrefix(ChainSteps(e, Len(log)), DownThenAbort(e, k))
               /\ Cardinality(FinalDones(e)) <= 1
               /\ \A f \in FinalDones(e) : ChainSteps(e, f - 1) = DownThenAbort(e, k)

\* C15: no exception thrown by a listener callback, a middleware function or
\* the terminal step of a chain leaves a scheduled callback uncaught, and
\* each one is followed at once by an error event.
C15_NoExceptionEscapes ==
    \A j \in LogIdx :
        /\ log[j].ev # "uncaught"
        /\ (log[j].ev \in {"mw", "callback", "adapter"} /\ log[j].v = "throw") =>
              (j < Len(log) /\ log[j + 1].ev = "error")

\* The error events emitted for a throwing middleware of a listener chain.
ChainFailures ==
    {j \in LogIdx : /\ log[j].ev = "error" /\ log[j].v = "middleware"
                    /\ execs[log[j].e].chain = "listener"}

PassEnded(p) == \E h \in LogIdx : log[h].ev = "final" /\ log[h].p = p

\* Every middleware invoked in execution e has called next.
LetsThroughExec(e) ==
    \A h \in LogIdx :
        (log[h].ev = "mw" /\ log[h].e = e) => log[h].v \in {"next", "nextWrap"}

\* Once the chain of listener i has failed in a pass: the callback of i has
\* not run, and when the pass has ended with the message not finished, every
\* listener registered after i has been called in it, and each of them that
\* matched and whose own chain let the message through has run its callback.
FailureIsolated ==
    \A j \in ChainFailures :
        LET e == log[j].e
            p == execs[e].p
            i == execs[e].li
        IN /\ ~\E h \in LogIdx : log[h].ev = "callback" /\ log[h].e = e
           /\ (PassEnded(p) /\ ~msgs[procs[p].m].done) =>
                 \A n \in ListenerIds :
                     n > i =>
                         \E c \in LogIdx :
                             /\ log[c].ev = "call" /\ log[c].p = p /\ log[c].i = n
                             /\ (Truthy(log[c].v) /\ LetsThroughExec(log[c].e)) =>
                                   \E h \in LogIdx :
                                       log[h].ev = "callback" /\ log[h].e = log[c].e

\* C16: when a listener middleware throws in the chain of matched listener
\* L(i), only that chain is aborted: the callback of L(i) does not run, the
\* listeners registered after L(i) are still called and those that match run
\* their own chain and callback, and the dispatch goes on to its completion
\* callback.
C16_FailureIsolation ==
    /\ []FailureIsolated
    /\ (ChainFailures # {}) ~> (CbEvents # {})

\* The listener middleware threw in the chain of the first listener, the
\* second listener was called, matched and ran its callback, and the
\* dispatch has completed.
C16_Witness ==
    /\ CbEvents # {}
    /\ \E j \in ChainFailures :
          /\ execs[log[j].e].li = 1
          /\ \E h \in LogIdx : /\ log[h].ev = "callback" /\ log[h].i = 2
                               /\ log[h].p = execs[log[j].e].p

\* C17: the entry points return before any of their callbacks runs.  Every
\* middleware, terminal step, wrapper and done function of an execution runs
\* in a later tick than the call of Middleware.execute; the callback of a
\* listener and its didMatchCallback, for a match and for a non-match, run in
\* a later tick than the Listener.call; every middleware, every listener call
\* and the completion callback run in a later tick than the Robot.receive for
\* the message, with or without listeners and middleware.
C17_EntryPointsReturnFirst ==
    /\ \A j \in LogIdx :
          ( /\ log[j].e # 0
            /\ log[j].ev \in {"mw", "terminal", "callback", "adapter", "done",
                              "allDone", "responseDone"} ) =>
              log[j].t > execs[log[j].e].t0
    /\ \A e \in ExecIds : \A f \in FinalDones(e) : log[f].t > execs[e].t0
    /\ \A c \in LogIdx :
          log[c].ev = "call" =>
              \A j \in LogIdx :
                  ( /\ log[j].ev \in {"callback", "didMatch"}
                    /\ log[j].p = log[c].p
                    /\ log[j].i = log[c].i ) => (j > c /\ log[j].t > log[c].t)
    /\ \A r \in LogIdx :
          log[r].ev = "receive" =>
              \A j \in LogIdx :
                  ( \/ (log[j].ev = "mw" /\ log[j].e = log[r].e)
                    \/ (log[j].ev \in {"call", "callback"} /\ log[j].p # 0
                          /\ procs[log[j].p].m = log[r].m)
                    \/ log[j].ev = "cb" ) => (j > r /\ log[j].t > log[r].t)

\* A dispatch has completed in which the first listener did not match and
\* the second matched and ran its callback.
C17_Witness ==
    /\ CbEvents # {}
    /\ \E p \in ProcIds :
          /\ DidMatchReports(p, 1, "false") # {}
          /\ DidMatchReports(p, 2, "true") # {}
          /\ \E j \in LogIdx : log[j].ev = "callback" /\ log[j].p = p /\ log[j].i = 2

(***************************************************************************)
(* Outbound actions: what the response middleware and the adapter receive  *)
(***************************************************************************)
OutboundCalls == {j \in LogIdx : log[j].ev = "outbound"}
AdapterCalls(e) == {j \in LogIdx : log[j].ev = "adapter" /\ log[j].e = e}
MiddlewareRuns(e) == {j \in LogIdx : log[j].ev = "mw" /\ log[j].e = e}

\* The trailing callback of an outbound call as a sequence of arguments.
TrailingCallback(o) == IF o.callback = Undefined THEN <<>> ELSE <<o.callback>>

\* No middleware of execution e has done anything but call next with the
\* strings as it found them.
OnlyCalledNext(e) == \A j \in MiddlewareRuns(e) : log[j].v \in {"next", "nextWrap"}

\* C18: for every outbound action a called with strings s1..sn whose response
\* middleware all call next without changing the strings, the adapter method
\* named a is invoked exactly once, with the envelope of the Response followed
\* by s1..sn in order, followed by the trailing callback when one was given.
C18_AdapterGetsStrings ==
    \A o \in OutboundCalls :
        LET e == log[o].e
        IN OnlyCalledNext(e) =>
             /\ Cardinality(AdapterCalls(e)) <= 1
             /\ (\E j \in LogIdx : log[j].ev = "responseDone" /\ log[j].e = e)
                   => Cardinality(AdapterCalls(e)) = 1
             /\ \A j \in AdapterCalls(e) :
                   /\ log[j].method = log[o].v
                   /\ log[j].envelope = log[o].envelope
                   /\ log[j].args = log[o].strings \o TrailingCallback(log[o])

\* C19: when an outbound action is called with a trailing function, no
\* response middleware ever finds that function in context.strings, the first
\* middleware finds exactly the string arguments there, and the adapter gets
\* the function as its last argument and nowhere else.
C19_CallbackKeptFromMiddleware ==
    \A o \in OutboundCalls :
        log[o].callback # Undefined =>
          \A j \in LogIdx :
            log[j].e = log[o].e =>
              /\ log[j].ev \in {"mw", "done"} =>
                    \A h \in 1..Len(log[j].strings) : log[j].strings[h] # log[o].callback
              /\ (log[j].ev = "mw" /\ log[j].i = 1) => log[j].strings = log[o].strings
              /\ log[j].ev = "adapter" =>
                    /\ log[j].args # <<>>
                    /\ \A h \in 1..Len(log[j].args) :
                          (log[j].args[h] = log[o].callback) <=> (h = Len(log[j].args))

\* The strings a middleware leaves in context.strings, given the history entry
\* of its invocation.
StringsLeftBy(x) ==
    CASE x.v = "replace" -> <<Str("replaced")>>
      [] x.v = "push" -> Append(x.strings, Str("pushed"))
      [] OTHER -> x.strings

\* C20: every response middleware after the first finds in context.strings
\* what the middleware before it left there, and the adapter is called with
\* what the last middleware left (followed by the callback, if any): changes
\* in place and wholesale replacements both carry over, and replaced strings
\* are gone.
C20_ChangesCarryOver ==
    \A o \in OutboundCalls :
      \A j \in MiddlewareRuns(log[o].e) :
        /\ \A h \in MiddlewareRuns(log[o].e) :
              log[h].i = log[j].i + 1 => log[h].strings = StringsLeftBy(log[j])
        /\ log[j].i = Len(Stack(log[o].e)) =>
              \A h \in AdapterCalls(log[o].e) :
                log[h].args = StringsLeftBy(log[j]) \o TrailingCallback(log[o])

\* A first middleware replaced the strings, a second pushed one more, and the
\* adapter was called with the replacement, the pushed string and the callback.
C20_Witness ==
    \E o \in OutboundCalls :
      /\ log[o].strings = <<Str("x"), Str("y")>>
      /\ \E j, h \in MiddlewareRuns(log[o].e) :
            /\ log[j].i = 1 /\ log[j].v = "replace"
            /\ log[h].i = 2 /\ log[h].v = "push"
      /\ \E a \in AdapterCalls(log[o].e) :
            log[a].args = <<Str("replaced"), Str("pushed"), Fn("callback")>>

\* C21: the context a response middleware is handed has method equal to the
\* name of the outbound action called, and plaintext true for send, emote,
\* reply, topic and locked and undefined for play.
C21_ContextMethodAndPlaintext ==
    \A o \in OutboundCalls :
      \A j \in MiddlewareRuns(log[o].e) :
        /\ log[j].method = log[o].v
        /\ log[j].plaintext = IF log[o].v = "play" THEN "undefined" ELSE "true"

\* The second middleware of a play has been handed its context, after the
\* first one called next.
C21_Witness ==
    \E o \in OutboundCalls :
      /\ log[o].v = "play"
      /\ \E j \in MiddlewareRuns(log[o].e) : log[j].i = 2 /\ log[j].plaintext = "undefined"

(***************************************************************************)
(* Listener.call: its result, its report and what it sets off              *)
(***************************************************************************)
\* The Listener.call invocations that returned.
ReturnedCalls == {c \in LogIdx : log[c].ev = "call" /\ log[c].v # "throw"}

\* The listener chain executions started for listener i in pass p.
ListenerExecs(p, i) ==
    {e \in ExecIds : execs[e].chain = "listener" /\ execs[e].p = p /\ execs[e].li = i}

\* The didMatchCallback invocations for listener i in pass p.
Reports(p, i) == {h \in LogIdx : log[h].ev = "didMatch" /\ log[h].p = p /\ log[h].i = i}

\* C22: Listener.call returns true exactly when the matcher returns a truthy
\* value; didMatchCallback is invoked later, at most once and by the end of
\* the listener's turn, with that same boolean; and for a falsy matcher
\* result no middleware is executed and the callback is not invoked (no
\* Response reaches it).
C22_CallReturnsMatch ==
    \A c \in ReturnedCalls :
        LET p == log[c].p
            i == log[c].i
        IN /\ (log[c].returns = "true") <=> Truthy(log[c].v)
           /\ Cardinality(Reports(p, i)) <= 1
           /\ CycleEnded(p, i) => Reports(p, i) # {}
           /\ \A h \in Reports(p, i) :
                 /\ log[h].v = log[c].returns
                 /\ h > c
                 /\ log[h].t > log[c].t
           /\ ~Truthy(log[c].v) =>
                 /\ ListenerExecs(p, i) = {}
                 /\ ~\E j \in LogIdx :
                        /\ log[j].ev \in {"mw", "terminal", "callback"}
                        /\ log[j].e # 0
                        /\ execs[log[j].e].chain = "listener"
                        /\ execs[log[j].e].p = p
                        /\ execs[log[j].e].li = i

\* With a listener middleware registered, a listener whose matcher returned
\* a falsy value has been told false, and its turn has ended.
C22_Witness ==
    /\ middleware.listener # <<>>
    /\ \E c \in ReturnedCalls :
          /\ ~Truthy(log[c].v)
          /\ DidMatchReports(log[c].p, log[c].i, "false") # {}
          /\ CycleEnded(log[c].p, log[c].i)

\* The listener turns of the passes of one inbound message: the direct pass
\* and the CatchAll pass.
Turns == (1..2) \X (1..MaxRegistrations)

\* The matcher of listener i matched in pass p.
Matched(p, i) ==
    \E c \in ReturnedCalls : log[c].p = p /\ log[c].i = i /\ Truthy(log[c].v)

\* For every listener whose matcher matched: didMatchCallback is never told
\* false and is told true at most once, in a later tick than the chain's own
\* done function allDone, after every wrapper installed by a listener
\* middleware of that chain has run.
ReportedOnceAfterChain ==
    \A c \in ReturnedCalls :
        Truthy(log[c].v) =>
          LET p == log[c].p
              i == log[c].i
              e == log[c].e
          IN /\ DidMatchReports(p, i, "false") = {}
             /\ Cardinality(DidMatchReports(p, i, "true")) <= 1
             /\ Cardinality(FinalDones(e)) <= 1
             /\ \A h \in DidMatchReports(p, i, "true") :
                   /\ \E f \in FinalDones(e) : f < h /\ log[f].t < log[h].t
                   /\ \A j \in LogIdx :
                         (log[j].ev = "mw" /\ log[j].e = e /\ log[j].v = "nextWrap") =>
                            \E d \in 1..(h - 1) :
                               log[d].ev = "done" /\ log[d].e = e /\ log[d].i = log[j].i

\* C23: once a listener's matcher has matched, didMatchCallback(true) is
\* invoked, exactly once, after the listener chain has completed, whether the
\* callback ran, was skipped by a middleware calling done(), or threw; the
\* wrappers installed by listener middleware have run before it.
C23_DidMatchTrueOnce ==
    /\ []ReportedOnceAfterChain
    /\ \A x \in Turns : Matched(x[1], x[2]) ~> (DidMatchReports(x[1], x[2], "true") # {})

\* A callback threw below a listener middleware that had wrapped done; the
\* wrapper ran and the listener was reported as matched.
C23_Witness ==
    \E c \in ReturnedCalls :
      /\ Truthy(log[c].v)
      /\ \E j \in LogIdx : log[j].ev = "callback" /\ log[j].e = log[c].e /\ log[j].v = "throw"
      /\ \E d \in LogIdx : log[d].ev = "done" /\ log[d].e = log[c].e
      /\ DidMatchReports(log[c].p, log[c].i, "true") # {}

(***************************************************************************)
(* The matcher of a TextListener                                           *)
(***************************************************************************)
\* The calls of listeners registered with hear.
HearCalls == {c \in ReturnedCalls : listeners[log[c].i].kind = "hear"}

\* C24: the matcher of a TextListener tests the pattern, once, on a
\* TextMessage or a TopicMessage and returns the result of that test; on a
\* plain, Enter, Leave or CatchAll message it returns a falsy value and the
\* pattern is not tested.
C24_TextListenerTestsTextOnly ==
    \A c \in HearCalls :
        LET message == msgs[log[c].m]
            regex == listeners[log[c].i].regex
        IN IF message.type \in {"Text", "Topic"}
             THEN /\ log[c].tests = 1
                  /\ log[c].v = TextMessage_match(message.text, regex)
             ELSE /\ log[c].tests = 0
                  /\ ~Truthy(log[c].v)

\* A TextListener has tested a TopicMessage that its pattern did not accept,
\* and was then called with the CatchAllMessage wrapping it.
C24_Witness ==
    /\ \E c \in HearCalls : msgs[log[c].m].type = "Topic" /\ log[c].v = "null"
    /\ \E c \in HearCalls : msgs[log[c].m].type = "CatchAll"

(***************************************************************************)
(* Receive middleware and the listeners                                    *)
(***************************************************************************)
\* The invocations of receive middleware k in execution e.
RunsOf(e, k) == {j \in MiddlewareRuns(e) : log[j].i = k}

\* The matcher evaluations (Listener.call) for the message of execution e.
MatcherCallsFor(e) == {c \in LogIdx : log[c].ev = "call" /\ log[c].m = execs[e].m}

\* Every receive middleware has been invoked for a message before any
\* matcher is evaluated for it.
MiddlewareBeforeMatchers(e) ==
    \A c \in MatcherCallsFor(e), k \in 1..Len(middleware.receive) :
        \E j \in RunsOf(e, k) : j < c

\* C25 as stated: for every message passed to receive, each registered
\* receive middleware is invoked exactly once for it (at most once at any
\* time, and once by the time the receive chain has completed), before any
\* listener matcher is evaluated for it.
C25_EveryReceiveMiddlewareOnce ==
    \A e \in ReceiveExecs :
        /\ \A k \in 1..Len(middleware.receive) :
              /\ Cardinality(RunsOf(e, k)) <= 1
              /\ FinalDones(e) # {} => Cardinality(RunsOf(e, k)) = 1
        /\ MiddlewareBeforeMatchers(e)

\* C25, amended: for every message passed to receive, each registered receive
\* middleware is invoked at most once for it; every one of them has been
\* invoked before any listener matcher is evaluated for it; and when every
\* receive middleware invoked calls next, each has been invoked exactly once
\* by the time the chain has completed.  (A middleware that calls done() or
\* throws keeps the ones after it from being invoked at all.)
C25_ReceiveMiddlewareOnceWhenPassedOn ==
    \A e \in ReceiveExecs :
        /\ \A k \in 1..Len(middleware.receive) :
              /\ Cardinality(RunsOf(e, k)) <= 1
              /\ (FinalDones(e) # {}
                    /\ \A j \in MiddlewareRuns(e) : log[j].v \in {"next", "nextWrap", "finishNext"})
                   => Cardinality(RunsOf(e, k)) = 1
        /\ MiddlewareBeforeMatchers(e)

\* No listener matched a message: the receive middleware was invoked for it
\* and for the CatchAllMessage wrapping it, and the listener has been called
\* with both.
C25_Witness ==
    /\ middleware.receive # <<>>
    /\ Cardinality(ReceiveExecs) = 2
    /\ \A e \in ReceiveExecs : RunsOf(e, 1) # {} /\ MatcherCallsFor(e) # {}

(***************************************************************************)
(* How often each listener is called for one inbound message               *)
(***************************************************************************)
\* The Listener.call invocations of listener i with message m.
CallsWith(i, m) == {c \in LogIdx : log[c].ev = "call" /\ log[c].i = i /\ log[c].m = m}

\* A listener reported a match for message m.
MatchReportedFor(m) ==
    \E h \in LogIdx : log[h].ev = "didMatch" /\ log[h].m = m /\ log[h].v = "true"

\* For the inbound message (message 1, never a CatchAllMessage): no listener
\* is called more than once with it, nor more than once with the
\* CatchAllMessage wrapping it, and none is called with any other message;
\* and, when the dispatch has completed and pre holds, every listener has
\* been called once with the message, and once more with the CatchAllMessage
\* exactly when no listener reported a match for the message.
CalledOncePerPass(pre) ==
    /\ \A i \in ListenerIds, m \in MsgIds : Cardinality(CallsWith(i, m)) <= 1
    /\ \A c \in LogIdx : log[c].ev = "call" => (log[c].m = 1 \/ log[c].m \in Wrapping(1))
    /\ (CbEvents # {} /\ pre) =>
          /\ Cardinality(CbEvents) = 1
          /\ \A i \in ListenerIds :
                /\ Cardinality(CallsWith(i, 1)) = 1
                /\ (\E c \in Wrapping(1) : CallsWith(i, c) # {}) <=> ~MatchReportedFor(1)
          /\ Cardinality({c \in LogIdx : log[c].ev = "call"})
                = IF MatchReportedFor(1) THEN Len(listeners) ELSE 2 * Len(listeners)

\* No listener callback has finished a message.
NoListenerFinishes == \A j \in LogIdx : log[j].ev = "callback" => log[j].v # "finish"

\* C26 as stated: for receive of a non-CatchAll message M with n listeners
\* and no listener finishing the message, each listener's call is invoked
\* exactly once with M, and once more, with the CatchAllMessage wrapping M,
\* if and only if no listener reported a match for M: 2n calls when none
\* matches, n when one does, never more.
C26_EachListenerCalledOnce == CalledOncePerPass(NoListenerFinishes)

\* C26, amended: the same, for a message that every receive middleware
\* passes on, both times, and that neither a middleware nor a listener
\* finishes.
C26_EachListenerCalledOnceWhenReached ==
    CalledOncePerPass(LetsThrough("receive") /\ \A m \in MsgIds : ~msgs[m].done)

\* Two listeners, none matching: the dispatch has completed after four calls.
C26_Witness ==
    /\ CbEvents # {}
    /\ Len(listeners) = 2
    /\ ~MatchReportedFor(1)
    /\ Cardinality({c \in LogIdx : log[c].ev = "call"}) = 4

(***************************************************************************)
(* The catch-all fallback                                                  *)
(***************************************************************************)
\* The runs of the callback of listener i.
CallbackRunsOf(i) == {j \in LogIdx : log[j].ev = "callback" /\ log[j].i = i}

\* No callback of a listener whose matcher does not match the inbound text
\* message (message 1) runs with that message, no callback registered with
\* catchAll runs more than once or with another message than the inbound
\* one; and when the dispatch of a message that no listener matches has
\* completed and pre holds, every callback registered with catchAll has run
\* once.
CatchAllCallbackRuns(pre) ==
    msgs # <<>> =>
    /\ \A i \in ListenerIds :
          /\ listeners[i].kind = "hear" /\ ~Truthy(Matcher(listeners[i], msgs[1]))
                => CallbackRunsOf(i) = {}
          /\ listeners[i].kind = "catchAll" =>
                /\ Cardinality(CallbackRunsOf(i)) <= 1
                /\ \A j \in CallbackRunsOf(i) : log[j].m = 1 /\ msgs[1].type = "Text"
    /\ ( /\ CbEvents # {}
         /\ \A i \in ListenerIds : ~Truthy(Matcher(listeners[i], msgs[1]))
         /\ pre )
        => \A i \in ListenerIds :
              listeners[i].kind = "catchAll" => Cardinality(CallbackRunsOf(i)) = 1

C28_RegisterChecksArity ==
    /\ \A j \in RegisterCalls :
          IF log[j].fn.length = 3
            THEN log[j].v = "ok" /\ log[j].after = Append(log[j].before, log[j].fn)
            ELSE log[j].v = "throw" /\ log[j].after = log[j].before
    /\ \A chain \in DOMAIN middleware :
          \A k \in 1..Len(middleware[chain]) : middleware[chain][k].length = 3
    /\ \A j \in LogIdx :
          log[j].ev = "mw" => Stack(log[j].e)[log[j].i].length = 3

\* A function of 2 parameters was refused, one of 3 parameters was accepted
\* on the receive chain and has been executed.
C28_Witness ==
    /\ \E j \in RegisterCalls : log[j].fn.length = 2 /\ log[j].v = "throw"
    /\ \E j \in RegisterCalls : log[j].chain = "receive" /\ log[j].v = "ok"
    /\ \E j \in LogIdx : log[j].ev = "mw"

(***************************************************************************)
(* The Listener constructor                                                *)
(***************************************************************************)
\* C29: constructing a Listener fails with a configuration error exactly
\* when the matcher is missing or the resolved callback (the third argument
\* when no fourth is given) is not callable; in every other case it succeeds
\* with options.id defined: options is { id: null } when options is absent,
\* and an options map without id gets id null.
C29_ListenerConstruction ==
    \A j \in Constructions :
        LET x == log[j]
            resolved == IF Nullish(x.callback) THEN x.options ELSE x.callback
            invalid == Nullish(x.matcher) \/ resolved.type # "function"
            absent == Nullish(x.callback) \/ Nullish(x.options)
        IN /\ invalid <=> x.v \in {"Error: Missing a matcher for Listener",
                                     "Error: Missing a callback for Listener"}
           /\ ~invalid =>
                 /\ x.v = "ok"
                 /\ x.result.callback = resolved
                 /\ x.result.id # "absent"
                 /\ absent => x.result.options = OptionsMap("null")
                 /\ (~absent /\ IdOf(x.options) = "absent") => x.result.id = "null"
                 /\ (~absent /\ IdOf(x.options) # "absent") => x.result.id = IdOf(x.options)

(***************************************************************************)
(* Aborting a chain below wrapped done functions                           *)
(***************************************************************************)
\* C30: when middleware k > 1 of a chain calls done(), the wrappers that
\* middleware 1..k-1 passed to next run at once, the one installed last
\* first, and then, once, the done function given to the chain; no wrapper
\* of middleware k or of a later middleware runs.
C30_AbortUnwindsWrappers ==
    \A j \in LogIdx :
        (log[j].ev = "mw" /\ log[j].v = "done" /\ log[j].i > 1) =>
            LET e == log[j].e
                k == log[j].i
                steps == ChainSteps(e, Len(log))
            IN /\ IsPrefix(steps, DownThenAbort(e, k))
               /\ \A h \in LogIdx : ~(log[h].ev = "done" /\ log[h].e = e /\ log[h].i >= k)
               /\ Cardinality(FinalDones(e)) <= 1
               /\ \A f \in FinalDones(e) :
                     /\ ChainSteps(e, f - 1) = DownThenAbort(e, k)
                     /\ f = j + Len(WrapsBelow(e, k)) + 1
               /\ FinalDones(e) = {} =>
                     /\ cur.op = "done"
                     /\ Len(log) = j + Len(steps) - k

\* The third of three receive middleware called done() after the first two
\* called next with a wrapper: the second wrapper ran, then the first, then
\* the completion callback.
C30_Witness ==
    \E e \in ExecIds :
        /\ execs[e].chain = "receive"
        /\ ChainSteps(e, Len(log)) =
              << <<"mw", 1>>, <<"mw", 2>>, <<"mw", 3>>, <<"done", 2>>, <<"done", 1>> >>
        /\ \E j \in LogIdx : log[j].ev = "mw" /\ log[j].e = e /\ log[j].i = 3
                                /\ log[j].v = "done"
        /\ FinalDones(e) # {}
        /\ log[Len(log)].ev = "cb"

(***************************************************************************)
(* A listener chain aborted by its middleware                              *)
(***************************************************************************)
\* C31: when a listener's matcher matched message M and a listener middleware
\* aborted the chain (by calling done() or by throwing), the callback does
\* not run, yet the listener reports true and never false: once reported,
\* anyListenersExecuted of the pass is true, the pass ends by deferring done,
\* and no CatchAllMessage is created nor received for M.
C31_AbortedListenerCountsAsExecuted ==
    \A e \in ExecIds :
        (/\ execs[e].chain = "listener"
         /\ \E j \in MiddlewareRuns(e) : log[j].v \in {"done", "throw"}) =>
            LET p == execs[e].p
                i == execs[e].li
            IN /\ ~\E j \in LogIdx : log[j].ev = "callback" /\ log[j].e = e
               /\ DidMatchReports(p, i, "false") = {}
               /\ DidMatchReports(p, i, "true") # {} => procs[p].any
               /\ (cur = Idle /\ queue = <<>>) => DidMatchReports(p, i, "true") # {}
               /\ Wrapping(procs[p].m) = {}
               /\ ~\E j \in LogIdx : log[j].ev = "receive" /\ log[j].p = p
               /\ \A j \in LogIdx :
                     (log[j].ev = "final" /\ log[j].p = p) =>
                         /\ log[j].v = "done"
                         /\ \E h \in DidMatchReports(p, i, "true") : h < j

\* The only listener matched a TextMessage, the listener middleware called
\* done(), and the dispatch has completed without a CatchAllMessage.
C31_Witness ==
    /\ CbEvents # {}
    /\ Len(listeners) = 1
    /\ msgs[1].type = "Text"
    /\ CatchAlls = {}
    /\ \E e \in ExecIds :
          /\ execs[e].chain = "listener"
          /\ \E j \in MiddlewareRuns(e) : log[j].v = "done"
          /\ procs[execs[e].p].any

(***************************************************************************)
(* A receive chain aborted by its middleware                               *)
(***************************************************************************)
\* C32: when a receive middleware calls done() without calling next for
\* message M, no listener is called with M, no CatchAllMessage is created for
\* M, and the completion callback given to receive is invoked exactly once:
\* in the same tick, as soon as the wrapped done functions have run.
C32_ReceiveAbortStillCompletes ==
    \A j \in LogIdx :
        (log[j].ev = "mw" /\ log[j].v = "done" /\ execs[log[j].e].chain = "receive") =>
            LET e == log[j].e
                m == execs[e].m
            IN /\ ~\E h \in LogIdx : log[h].ev = "call" /\ log[h].m = m
               /\ ~\E p \in ProcIds : procs[p].m = m
               /\ Wrapping(m) = {}
               /\ Cardinality(CbEvents) <= 1
               /\ CbEvents = {} => (cur.op = "done" /\ tick = log[j].t)
               /\ \A c \in CbEvents :
                     /\ c > j
                     /\ \A h \in (j + 1)..(c - 1) : log[h].ev = "done"
                     /\ log[c].t = log[j].t

\* A receive middleware called done() for a TextMessage that the registered
\* listener would have matched, and the completion callback has run.
C32_Witness ==
    /\ CbEvents # {}
    /\ Len(listeners) = 1
    /\ Truthy(Matcher(listeners[1], msgs[1]))
    /\ \E j \in LogIdx :
          /\ log[j].ev = "mw" /\ log[j].v = "done" /\ log[j].m = 1
          /\ execs[log[j].e].chain = "receive"

(***************************************************************************)
(* Edits of the message by receive middleware                              *)
(***************************************************************************)
\* C33: the text a receive middleware assigns to the message of
\* context.response is the text the next receive middleware finds (and a
\* middleware that assigns nothing leaves the text it found), and the matcher
\* of every listener called with the message gives the result it gives for
\* the text left by the last receive middleware, not for the text received.
C33_EditsSeenDownstream ==
    \A e \in ReceiveExecs :
      \A j \in MiddlewareRuns(e) :
        LET left == IF log[j].v \in Texts THEN log[j].v ELSE log[j].text
            message == [msgs[execs[e].m] EXCEPT !.text = left]
        IN /\ \A h \in MiddlewareRuns(e) : log[h].i = log[j].i + 1 => log[h].text = left
           /\ log[j].i = Len(Stack(e)) =>
                 \A c \in LogIdx :
                    (log[c].ev = "call" /\ log[c].m = execs[e].m) =>
                        /\ log[c].v = Matcher(listeners[log[c].i], message)
                        /\ log[c].returns = IF Truthy(log[c].v) THEN "true" ELSE "false"

\* A TextMessage that the listener's pattern does not accept was received,
\* the first receive middleware assigned a text that it accepts, the second
\* found that text, and the listener matched and ran its callback.
C33_Witness ==
    \E j, h \in LogIdx :
        /\ log[j].ev = "mw" /\ log[j].i = 1 /\ log[j].m = 1
        /\ log[j].text = "b" /\ log[j].v = "a"
        /\ log[h].ev = "mw" /\ log[h].i = 2 /\ log[h].m = 1 /\ log[h].text = "a"
        /\ \E c \in LogIdx : log[c].ev = "call" /\ log[c].m = 1 /\ log[c].v = "match"
        /\ \E c \in LogIdx : log[c].ev = "callback" /\ log[c].m = 1

(***************************************************************************)
(* The listener chain of a matched listener                                *)
(***************************************************************************)
\* C34: a Listener.call whose matcher matched starts exactly one execution of
\* the listener chain, on a context whose listener is that listener and whose
\* Response is of the robot, holds the message being dispatched and the
\* match; each listener middleware is invoked at most once in it, the first
\* one as soon as the event loop is idle, and the callback runs only after
\* every listener middleware has been invoked.  A call whose matcher did not
\* match starts none, and every execution of the listener chain is started by
\* such a call.
C34_ListenerChainOncePerMatch ==
    /\ \A c \in ReturnedCalls :
          LET p == log[c].p
              i == log[c].i
              started == {e \in ExecIds : /\ execs[e].chain = "listener"
                                          /\ execs[e].p = p /\ execs[e].li = i}
          IN IF Truthy(log[c].v)
               THEN /\ started = {log[c].e}
                    /\ \A e \in started :
                          /\ execs[e].m = log[c].m
                          /\ ContextResponse(e) = Response(RobotRef, MessageRef(log[c].m), log[c].v)
                          /\ \A k \in 1..Len(Stack(e)) : Cardinality(RunsOf(e, k)) <= 1
                          /\ \A j \in MiddlewareRuns(e) : j > c
                          /\ (cur = Idle /\ queue = <<>> /\ Len(Stack(e)) > 0) =>
                                Cardinality(RunsOf(e, 1)) = 1
                          /\ \A b \in LogIdx :
                                (log[b].ev = "callback" /\ log[b].e = e) =>
                                    \A k \in 1..Len(Stack(e)) : \E j \in RunsOf(e, k) : j < b
               ELSE started = {}
    /\ \A e \in ExecIds :
          execs[e].chain = "listener" =>
              \E c \in ReturnedCalls : log[c].e = e /\ Truthy(log[c].v)

\* Two listeners matched the message: the listener chain ran once for each,
\* and each callback ran after the listener middleware.
C34_Witness ==
    /\ CbEvents # {}
    /\ Len(middleware.listener) = 1
    /\ \E b1, b2 \in LogIdx :
          /\ log[b1].ev = "callback" /\ log[b1].i = 1
          /\ log[b2].ev = "callback" /\ log[b2].i = 2
          /\ log[b1].e # log[b2].e
          /\ RunsOf(log[b1].e, 1) # {} /\ RunsOf(log[b2].e, 1) # {}

(***************************************************************************)
(* Error handlers                                                          *)
(***************************************************************************)
\* C35: for every error event emitted because a middleware function threw, a
\* listener callback threw or a listener's call threw, once the robot's
\* subscriber has been called for it, each handler registered with
\* Robot.error has been invoked exactly once, with the exception thrown and
\* the Response emitted with it, whatever the other handlers did.
C35_ErrorHandlersInvoked ==
    \A j \in LogIdx :
        (/\ log[j].ev = "error"
         /\ log[j].v \in {"middleware", "callback", "call"}
         /\ j \notin Undelivered) =>
            LET x == log[j]
                error == CASE x.v = "middleware" -> Exception("middleware", x.e, x.i)
                           [] x.v = "callback" -> Exception("callback", x.e, x.i)
                           [] OTHER -> Exception("matcher", x.p, x.i)
                res == CASE x.v = "middleware" -> ContextResponse(x.e)
                         [] x.v = "callback" ->
                              [ContextResponse(x.e) EXCEPT !.message = MessageRef(x.m)]
                         [] OTHER -> Carried(x)[2]
            IN \A k \in 1..Len(errorHandlers) :
                  LET calls == {h \in LogIdx : /\ log[h].ev = "errorHandler"
                                               /\ log[h].of = j /\ log[h].i = k}
                  IN /\ Cardinality(calls) = 1
                     /\ \A h \in calls : log[h].error = error /\ log[h].res = res

(***************************************************************************)
(* Terminal step and final done of a chain execution                       *)
(***************************************************************************)
\* C36: whatever each middleware does (calls next, calls next with a wrapped
\* done, calls done, throws before calling either, throws after its call of
\* next has returned), an execution of a chain invokes its terminal step at
\* most once and the done function it was given at most once.
C36_TerminalAndDoneAtMostOnce ==
    \A e \in ExecIds :
        /\ Cardinality({j \in LogIdx : log[j].ev = "terminal" /\ log[j].e = e}) <= 1
        /\ Cardinality(FinalDones(e)) <= 1

(***************************************************************************)
(* Two dispatches in progress                                              *)
(***************************************************************************)
\* C37: when two messages are received one right after the other, for each
\* of them: the listeners are called in registration order in its pass; a
\* CatchAllMessage is created for it exactly when its pass has ended without
\* a matcher having matched it, whatever happened to the other message; and
\* its completion callback is invoked at most once, and exactly once when the
\* event loop has nothing left to run.
C37_DispatchesDoNotInterfere ==
    (Len(msgs) >= 2 /\ msgs[2].type = "Text") =>
        \A m \in {1, 2} :
            LET passes == {p \in ProcIds : procs[p].m = m}
                matched == \E c \in LogIdx : /\ log[c].ev = "call" /\ log[c].m = m
                                             /\ Truthy(log[c].v)
                ended == \E j \in LogIdx : log[j].ev = "final" /\ log[j].m = m
                cbs == {j \in CbEvents : log[j].m = m}
            IN /\ Cardinality(passes) <= 1
               /\ \A p \in passes :
                     \A n \in 1..Len(CallsOf(p)) :
                        /\ CallsOf(p)[n].i = n
                        /\ CallsOf(p)[n].m = m
               /\ (Wrapping(m) # {}) <=> (ended /\ ~matched)
               /\ Cardinality(Wrapping(m)) <= 1
               /\ \A c \in Wrapping(m) :
                     \A p \in ProcIds :
                        procs[p].m = c =>
                            \A n \in 1..Len(CallsOf(p)) :
                               CallsOf(p)[n].i = n /\ CallsOf(p)[n].m = c
               /\ Cardinality(cbs) <= 1
               /\ (cur = Idle /\ queue = <<>>) => Cardinality(cbs) = 1

\* Both dispatches have completed; the first message was matched by the hear
\* listener and the second was not and went to the catchAll listener, and
\* the second message's pass began before the first message's pass ended.
C37_Witness ==
    /\ Len(msgs) >= 2
    /\ msgs[2].type = "Text"
    /\ \A m \in {1, 2} : \E j \in CbEvents : log[j].m = m
    /\ Wrapping(1) = {}
    /\ Wrapping(2) # {}
    /\ \E c \in LogIdx : log[c].ev = "callback" /\ log[c].i = 1 /\ log[c].m = 1
    /\ \E c \in LogIdx : log[c].ev = "callback" /\ log[c].i = 2 /\ log[c].m = 2
    /\ \E j, h \in LogIdx :
          /\ j < h
          /\ log[j].ev = "call" /\ log[j].m = 2
          /\ log[h].ev = "final" /\ log[h].m = 1

(***************************************************************************)
(* Outbound actions called from a listener callback                        *)
(***************************************************************************)
\* C38: when a listener callback calls response.send and every response
\* middleware run for that call calls next, the adapter method of that call
\* has been invoked by the time the completion callback of receive runs, in
\* an earlier tick.
C38_AdapterBeforeCompletion ==
    \A b \in LogIdx :
        (log[b].ev = "callback" /\ log[b].v = "send") =>
            \A r \in ExecIds :
                (/\ execs[r].chain = "response"
                 /\ execs[r].p = log[b].p /\ execs[r].li = log[b].i
                 /\ \A j \in MiddlewareRuns(r) :
                       log[j].v \in {"next", "nextWrap", "replace", "push"}) =>
                    \A c \in CbEvents :
                        /\ c > b
                        /\ \E a \in AdapterCalls(r) : a < c /\ log[a].t < log[c].t
                        /\ \A j \in MiddlewareRuns(r) : j < c

\* A listener callback called send, the response middleware called next, the
\* adapter method was invoked, and the completion callback has run.
C38_Witness ==
    /\ CbEvents # {}
    /\ Len(middleware.response) = 1
    /\ \E b \in LogIdx :
          /\ log[b].ev = "callback" /\ log[b].v = "send"
          /\ \E r \in ExecIds :
                /\ execs[r].chain = "response" /\ execs[r].li = log[b].i
                /\ \E j \in MiddlewareRuns(r) : log[j].v = "next"
                /\ AdapterCalls(r) # {}

(***************************************************************************)
(* TextListeners in the CatchAll pass                                      *)
(***************************************************************************)
\* A robot with a hear and a catchAll listener below one receive middleware.
CatchAllInit ==
    /\ listeners = << Listener("hear", "a", ""), Listener("catchAll", "", "") >>
    /\ middleware = [receive |-> << MiddlewareFunc(3) >>, listener |-> <<>>, response |-> <<>>]
    /\ msgs = <<>>
    /\ execs = <<>>
    /\ procs = <<>>
    /\ queue = <<>>
    /\ cur = Idle
    /\ log = <<>>
    /\ tick = 0
    /\ frames = <<>>
    /\ errorHandlers = <<>>

\* A receive middleware running on a CatchAllMessage assigns
\* context.response.message.message.text, the text of the wrapped message,
\* and calls next().
MiddlewareEditsWrappedMessage ==
    /\ cur.op = "mw"
    /\ cur.k <= Len(Stack(cur.e))
    /\ execs[cur.e].chain = "receive"
    /\ msgs[execs[cur.e].m].type = "CatchAll"
    /\ \E text \in Texts :
          /\ msgs' = [msgs EXCEPT ![msgs[execs[cur.e].m].inner].text = text]
          /\ log' = Append(log, [MwEv(cur.e, cur.k, "editWrapped") EXCEPT !.v = text])
    /\ cur' = Op("mw", cur.e, cur.k + 1, nextFunc(<<>>, cur.d), 0, "")
    /\ UNCHANGED <<listeners, middleware, execs, procs, queue, tick, errorHandlers, frames>>

CatchAllNext == EditNext \/ MiddlewareEditsWrappedMessage

CatchAllSpec == CatchAllInit /\ [][CatchAllNext]_vars

\* The calls of TextListeners with a CatchAllMessage.
HearCallsInCatchAllPass == {c \in HearCalls : msgs[log[c].m].type = "CatchAll"}

\* C39: a TextListener called with a CatchAllMessage does not match it and
\* does not test its pattern, whatever the text of the wrapped message or of
\* the CatchAllMessage itself; no callback registered with hear runs on a
\* CatchAllMessage, and the callbacks that run in a pass over a
\* CatchAllMessage are those of listeners whose matcher accepts it.
C39_TextListenerNeverMatchesCatchAll ==
    /\ \A c \in HearCallsInCatchAllPass :
          /\ ~Truthy(log[c].v)
          /\ log[c].tests = 0
          /\ log[c].returns = "false"
    /\ \A j \in LogIdx :
          (log[j].ev = "callback" /\ msgs[procs[log[j].p].m].type = "CatchAll") =>
              /\ listeners[log[j].i].kind # "hear"
              /\ Truthy(Matcher(listeners[log[j].i], msgs[procs[log[j].p].m]))

\* A TextListener was called with a CatchAllMessage whose wrapped message has
\* the text of its pattern, and another with a CatchAllMessage that itself
\* was given that text; the callback of the catchAll listener has run.
C39_Witness ==
    /\ \E c \in HearCallsInCatchAllPass :
          msgs[msgs[log[c].m].inner].text = listeners[log[c].i].regex
    /\ \E j \in LogIdx :
          log[j].ev = "callback" /\ msgs[procs[log[j].p].m].type = "CatchAll"

====
